---- MODULE Spec2Model ----
(***************************************************************************)
(* Workflow orchestration engine of the QA automation agent:               *)
(*   - SessionManager  (session store, status/phase bookkeeping, timers)   *)
(*   - OrchestratorAgent.handleNewQA / processQA  (phased pipeline driver) *)
(*   - retry()         (bounded retry with exponential backoff)            *)
(*   - BaseAgent.execute / executeWithTimeout (per-step envelope)          *)
(*                                                                         *)
(* Five specifications share one set of variables:                         *)
(*   Spec         the SessionManager API driven by an arbitrary caller     *)
(*   PipelineSpec handleNewQA/processQA runs interleaved with the timers   *)
(*   IntakeSpec   the polling timer feeding handleNewQA                    *)
(*   RetrySpec    retry() applied to an arbitrary operation and policy     *)
(*   AgentSpec    BaseAgent.execute around an arbitrary run()              *)
(***************************************************************************)
EXTENDS Integers, Sequences, FiniteSets, Bags, TLC

(***************************************************************************)
(* Bounds of the model                                                     *)
(***************************************************************************)
MaxSessions == 2      \* session ids the store can allocate
MaxTime     == 2      \* clock values 0..MaxTime
MaxCalls    == 4      \* SessionManager API calls made by the caller in Spec
MaxAge      == 1      \* cleanup(olderThan) arguments 0..MaxAge
MaxRuns     == 1      \* invocations of handleNewQA in PipelineSpec
MaxAttempts     == 3  \* retry policies have maxAttempts in 1..MaxAttempts
MaxInitialDelay == 2  \* ... initialDelay in 1..MaxInitialDelay
MaxDelayCap     == 3  \* ... maxDelay in 1..MaxDelayCap
MaxMultiplier   == 2  \* ... backoffMultiplier in 1..MaxMultiplier
MaxPolls    == 1      \* ticks of the polling timer in IntakeSpec
MaxHandled  == 2      \* invocations of handleNewQA made by the polls
MaxDriverCalls == 3   \* calls of start() and stop() in DriverSpec
MaxOverlap  == 2      \* ticks of the polling timer, and runs, in OverlapSpec

(***************************************************************************)
(* Enumerations (agent-related type definitions)                           *)
(***************************************************************************)
CREATED   == "created"
RUNNING   == "running"
COMPLETED == "completed"
FAILED    == "failed"
TIMEOUT   == "timeout"
SessionStatus == {CREATED, RUNNING, COMPLETED, FAILED, TIMEOUT}

DETECTION      == "detection"
ANALYSIS       == "analysis"
CLASSIFICATION == "classification"
IMPLEMENTATION == "implementation"
PR_CREATION    == "pr_creation"
COMPLETION     == "completion"
WorkflowPhase == {DETECTION, ANALYSIS, CLASSIFICATION, IMPLEMENTATION,
                  PR_CREATION, COMPLETION}

NOT_STARTED    == "Not Started"
IN_PROGRESS    == "In Progress"
DONE           == "Done"
NOT_ACTIONABLE == "Not Actionable"
IN_REVIEW      == "In Review"
QAStatus == {NOT_STARTED, IN_PROGRESS, DONE, NOT_ACTIONABLE, IN_REVIEW}

\* absent optional values
NoTime  == -1
NoPhase == "none"
\* an error message is the sequence of its words
NoError == [message |-> << >>, code |-> "none", retryable |-> FALSE]

\* AgentResult, the Step Result execute() resolves with
AgentResult(success, data, error, retryCount) ==
  [success |-> success, data |-> data, error |-> error, retryCount |-> retryCount]

\* the descriptor the session timer stores
SessionTimeoutError ==
  [message |-> <<"Session", "timed", "out">>, code |-> "SESSION_TIMEOUT",
   retryable |-> FALSE]

\* a descriptor a caller of updateStatus may pass
CallerError ==
  [message |-> <<"boom">>, code |-> "E_CALLER", retryable |-> TRUE]

SessionIds == 1..MaxSessions
Items      == {"qa1", "qa2"}
\* the pages of the tracker's database, in the order a query returns them
ItemOrder  == <<"qa1", "qa2">>
Runs       == 1..MaxRuns

VARIABLES
  sessions,        \* SessionManager.sessions : id -> AgentSession
  timeoutHandlers, \* SessionManager.timeoutHandlers : set of ids with a handle
  timers,          \* ids whose setTimeout is armed (not fired, not cleared)
  nextId,          \* next session id generateSessionId hands out
  now,             \* Date.now()
  events,          \* id -> bag of the events emitted for that session
  lastCall,        \* the API call made by the last step and its arguments
  calls,           \* number of API calls made by the caller
  \* OrchestratorAgent: one run per invocation of handleNewQA
  pc,              \* run -> the await the run is suspended at
  runItem,         \* run -> id of the qaItem handed to handleNewQA
  runSession,      \* run -> id of the session processQA created (0: none)
  runError,        \* run -> message of the Error processQA threw
  tracker,         \* item -> status of the page in the item tracker
  runStatus,       \* run -> qaItem.status as handed to handleNewQA
  comments,        \* item -> comments added to the page, in order
  enabled,         \* SlackNotifier.enabled
  notified,        \* item -> calls of the notifier and what became of them
  agentCalls,      \* run -> agents whose execute() was invoked, in order
  agentResults,    \* run -> the Step Results those calls resolved with, in order
  polls,           \* the ticks of the polling timer so far, each with its progress
  isRunning,       \* OrchestratorAgent.isRunning
  pollingInterval, \* OrchestratorAgent.pollingInterval: the last handle (0: undefined)
  intervals,       \* the handles of setInterval that were not cleared
  isConnected,     \* NotionMCPClient.isConnected
  starting,        \* calls of start() suspended in `await subscribeToDatabase`
  closing,         \* calls of stop() suspended in `await notionClient.disconnect()`
  driverLog,       \* the calls of start() and stop() so far, in order
  \* retry(fn, options)
  opts,            \* the merged RetryOptions
  attempt,         \* the loop variable of retry
  rpc,             \* where retry is: idle, calling, sleeping, resolved, rejected
  fnCalls,         \* number of invocations of fn
  thrown,          \* the errors thrown by the failed attempts, in order
  onRetryLog,      \* the calls of onRetry: error, attempt, delays started before
  delays,          \* the delays handed to sleep, in order
  outcome,         \* the value retry resolved with or the error it rejected with
  \* BaseAgent.execute(input)
  config,          \* the AgentConfig given to the constructor
  progressCallback, \* BaseAgent.progressCallback: unset, or what it does when called
  runState,        \* attempt -> running, resolved, rejected: its call of run()
  timerState,      \* attempt -> armed, fired: the setTimeout of executeWithTimeout
  race,            \* attempt -> pending, run, timer: what settled Promise.race
  execState,       \* idle, pending, resolved, rejected: the promise of execute
  results          \* the Step Results execute has resolved with

storeVars == <<sessions, timeoutHandlers, timers, nextId, now, events, lastCall, calls>>

driverVars == <<isRunning, pollingInterval, intervals, isConnected, starting,
                closing, driverLog>>

pipeVars == <<pc, runItem, runStatus, runSession, runError, tracker, comments,
              enabled, notified, agentCalls, agentResults, polls, driverVars>>

retryVars == <<opts, attempt, rpc, fnCalls, thrown, onRetryLog, delays, outcome>>

agentVars == <<config, progressCallback, runState, timerState, race, execState,
               results>>

vars == <<storeVars, pipeVars, retryVars, agentVars>>

(***************************************************************************)
(* SessionManager: the methods as functions on the store value             *)
(*   S = [sessions, handlers, timers, events]                              *)
(***************************************************************************)
Store == [sessions |-> sessions, handlers |-> timeoutHandlers,
          timers |-> timers, events |-> events]

Terminal == {COMPLETED, FAILED, TIMEOUT}

\* EventEmitter.emit(name, session): the payload is the session object as it
\* is at the time of the call
emit(S, id, name) ==
  [S EXCEPT !.events[id] =
     @ (+) SetToBag({[name   |-> name,
                      status |-> S.sessions[id].status,
                      code   |-> S.sessions[id].error.code,
                      phase  |-> S.sessions[id].currentPhase]})]

get(S, id) == IF id \in DOMAIN S.sessions THEN S.sessions[id] ELSE NoError

\* the handle stored without a timer behind it
setupTimeoutUnarmed(S, id) ==
  [S EXCEPT !.handlers = @ \cup {id}]

\* setTimeout(...) and timeoutHandlers.set(sessionId, timeout)
setupTimeout(S, id) ==
  [S EXCEPT !.timers = @ \cup {id}, !.handlers = @ \cup {id}]

\* clearTimeout(handle) and timeoutHandlers.delete(sessionId), when a handle
\* is stored for the id
clearTimeout(S, id) ==
  IF id \in S.handlers
    THEN [S EXCEPT !.timers = @ \ {id}, !.handlers = @ \ {id}]
    ELSE S

create(S, id, item, t) ==
  LET session == [id              |-> id,
                  qaItemId        |-> item,
                  status          |-> CREATED,
                  startedAt       |-> t,
                  completedAt     |-> NoTime,
                  error           |-> NoError,
                  currentPhase    |-> NoPhase,
                  completedPhases |-> << >>,
                  contextKeys     |-> {},
                  updatedAt       |-> t]
      S1 == [S EXCEPT !.sessions = @ @@ (id :> session)]
  IN  emit(setupTimeout(S1, id), id, "session:created")

updateStatus(S, id, status, error, t) ==
  IF id \notin DOMAIN S.sessions
    THEN S
    ELSE LET S1 == [S EXCEPT !.sessions[id].status = status,
                             !.sessions[id].updatedAt = t,
                             !.sessions[id].error =
                                 IF error # NoError THEN error ELSE @]
             S2 == IF status \in {COMPLETED, FAILED}
                     THEN clearTimeout(
                            [S1 EXCEPT !.sessions[id].completedAt = t], id)
                     ELSE S1
         IN  emit(S2, id, "session:updated")

Includes(seq, x) == \E i \in DOMAIN seq : seq[i] = x

updatePhase(S, id, phase, t) ==
  IF id \notin DOMAIN S.sessions
    THEN S
    ELSE LET S1 == [S EXCEPT !.sessions[id].currentPhase = phase,
                             !.sessions[id].updatedAt = t,
                             !.sessions[id].completedPhases =
                                 IF Includes(@, phase) THEN @
                                                       ELSE Append(@, phase)]
         IN  emit(S1, id, "session:phase")

updateContext(S, id, key, t) ==
  IF id \notin DOMAIN S.sessions
    THEN S
    ELSE LET S1 == [S EXCEPT !.sessions[id].contextKeys = @ \cup {key},
                             !.sessions[id].updatedAt = t]
         IN  emit(S1, id, "session:context")

\* close without the test for an unknown id: the closing is announced with
\* an undefined session
closeNoGuard(S, id, status, t) ==
  IF id \notin DOMAIN S.sessions
    THEN [S EXCEPT !.events[id] =
            @ (+) SetToBag({[name |-> "session:closed", status |-> "undefined",
                             code |-> "none", phase |-> NoPhase]})]
    ELSE LET finalStatus == IF status = "" THEN COMPLETED ELSE status
             S1 == updateStatus(S, id, finalStatus, NoError, t)
         IN  emit(clearTimeout(S1, id), id, "session:closed")

\* close with the deletion of the session (the line the source comments out)
closeDeletes(S, id, status, t) ==
  IF id \notin DOMAIN S.sessions
    THEN S
    ELSE LET finalStatus == IF status = "" THEN COMPLETED ELSE status
             S1 == updateStatus(S, id, finalStatus, NoError, t)
             S2 == emit(clearTimeout(S1, id), id, "session:closed")
         IN  [S2 EXCEPT !.sessions =
                [i \in (DOMAIN S2.sessions) \ {id} |-> S2.sessions[i]]]

\* close that drops the timer and announces the closing without recording
\* the final status
closeNoStatus(S, id, status, t) ==
  IF id \notin DOMAIN S.sessions
    THEN S
    ELSE emit(clearTimeout(S, id), id, "session:closed")

\* status = "" stands for the omitted optional argument
close(S, id, status, t) ==
  IF id \notin DOMAIN S.sessions
    THEN S
    ELSE LET finalStatus == IF status = "" THEN COMPLETED ELSE status
             S1 == updateStatus(S, id, finalStatus, NoError, t)
         IN  emit(clearTimeout(S1, id), id, "session:closed")

\* cleanup without the status test
cleanupAnyStatus(S, olderThan, t) ==
  LET cutoff == t - olderThan
      swept  == {id \in DOMAIN S.sessions :
                   /\ S.sessions[id].completedAt # NoTime
                   /\ S.sessions[id].completedAt < cutoff}
  IN  [S EXCEPT !.sessions =
         [id \in (DOMAIN S.sessions) \ swept |-> S.sessions[id]]]

cleanup(S, olderThan, t) ==
  LET cutoff == t - olderThan
      swept  == {id \in DOMAIN S.sessions :
                   /\ S.sessions[id].completedAt # NoTime
                   /\ S.sessions[id].completedAt < cutoff
                   /\ S.sessions[id].status \in {COMPLETED, FAILED}}
  IN  [S EXCEPT !.sessions =
         [id \in (DOMAIN S.sessions) \ swept |-> S.sessions[id]]]

\* the timer callback announcing the timeout without making the transition
timeoutCallbackNoTransition(S, id, t) ==
  LET S0 == [S EXCEPT !.timers = @ \ {id}]
  IN  IF id \in DOMAIN S0.sessions /\ S0.sessions[id].status = RUNNING
        THEN emit(S0, id, "session:timeout")
        ELSE S0

\* the callback setupTimeout hands to setTimeout; it runs once, when the
\* timer fires
timeoutCallback(S, id, t) ==
  LET S0 == [S EXCEPT !.timers = @ \ {id}]
  IN  IF id \in DOMAIN S0.sessions /\ S0.sessions[id].status = RUNNING
        THEN emit(updateStatus(S0, id, TIMEOUT, SessionTimeoutError, t),
                  id, "session:timeout")
        ELSE S0

getActiveSessions(S) ==
  {id \in DOMAIN S.sessions : S.sessions[id].status \in {RUNNING, CREATED}}

getSessionCount(S) == Cardinality(DOMAIN S.sessions)

getActiveSessionCount(S) == Cardinality(getActiveSessions(S))

getStats(S) ==
  LET n(st) == Cardinality({id \in DOMAIN S.sessions : S.sessions[id].status = st})
  IN  [total     |-> Cardinality(DOMAIN S.sessions),
       active    |-> n(RUNNING),
       completed |-> n(COMPLETED),
       failed    |-> n(FAILED),
       timeout   |-> n(TIMEOUT)]

\* the store variables take the value S
SetStore(S) ==
  /\ sessions' = S.sessions
  /\ timeoutHandlers' = S.handlers
  /\ timers' = S.timers
  /\ events' = S.events

(***************************************************************************)
(* retry.ts: retry(fn, options) with exponential backoff                   *)
(***************************************************************************)
DEFAULT_RETRY_OPTIONS ==
  [maxAttempts |-> 3, initialDelay |-> 1000, maxDelay |-> 30000,
   backoffMultiplier |-> 2, retryableErrors |-> {}]

\* String.prototype.toLowerCase on the words used in messages
Lower(w) ==
  CASE w = "Rate"    -> "rate"
    [] w = "Limit"   -> "limit"
    [] w = "Timeout" -> "timeout"
    [] w = "Network" -> "network"
    [] w = "Agent"   -> "agent"
    [] OTHER         -> w

\* RegExp.test: the words of the pattern occur next to each other in the
\* message, compared case-insensitively under the i flag
Test(pattern, message) ==
  \E i \in 1..Len(message) :
    /\ i + Len(pattern.words) - 1 <= Len(message)
    /\ \A j \in 1..Len(pattern.words) :
         (IF pattern.i THEN Lower(message[i + j - 1]) ELSE message[i + j - 1])
           = pattern.words[j]

Re(words, i) == [words |-> words, i |-> i]

retryablePatterns ==
  {Re(<<"network">>, TRUE), Re(<<"timeout">>, TRUE), Re(<<"rate", "limit">>, TRUE),
   Re(<<"ECONNRESET">>, FALSE), Re(<<"ETIMEDOUT">>, FALSE), Re(<<"ENOTFOUND">>, FALSE),
   Re(<<"429">>, FALSE), Re(<<"502">>, FALSE), Re(<<"503">>, FALSE),
   Re(<<"504">>, FALSE)}

\* code = "" stands for an error without a code property
isRetryableError(error, options) ==
  IF options.retryableErrors # {}
    THEN (IF error.code # "" THEN error.code ELSE error.name)
            \in options.retryableErrors
    ELSE \E pattern \in retryablePatterns : Test(pattern, error.message)

Min(a, b) == IF a < b THEN a ELSE b

\* the delay computed with the exponent one too high
calculateDelayNextAttempt(n, options) ==
  Min(options.initialDelay * options.backoffMultiplier ^ n, options.maxDelay)

calculateDelay(n, options) ==
  Min(options.initialDelay * options.backoffMultiplier ^ (n - 1), options.maxDelay)

\* the catch block that gives up one attempt early
catchDecisionEarly(n, error, options) ==
  IF n + 1 >= options.maxAttempts THEN "throw"
  ELSE IF ~isRetryableError(error, options) THEN "throw"
  ELSE "retry"

\* the catch block that retries whatever the class of the error
catchDecisionAnyError(n, error, options) ==
  IF n >= options.maxAttempts THEN "throw" ELSE "retry"

\* the catch block of the loop body: rethrow, or call onRetry and sleep
catchDecision(n, error, options) ==
  IF n >= options.maxAttempts THEN "throw"
  ELSE IF ~isRetryableError(error, options) THEN "throw"
  ELSE "retry"

\* the errors an operation may throw; id is the attempt that threw it
ErrorKinds ==
  {[message |-> <<"connect", "ETIMEDOUT">>, code |-> "ETIMEDOUT", name |-> "Error"],
   [message |-> <<"Rate", "Limit", "exceeded">>, code |-> "", name |-> "RateLimitError"],
   [message |-> <<"invalid", "input">>, code |-> "E_VALIDATION", name |-> "Error"],
   [message |-> <<"getaddrinfo", "ENOTFOUND">>, code |-> "ENOTFOUND", name |-> "Error"]}

MakeError(kind, n) ==
  [id |-> n, message |-> kind.message, code |-> kind.code, name |-> kind.name]

NoOutcome == [id |-> 0, message |-> << >>, code |-> "", name |-> ""]

Value == [id |-> 0, message |-> << >>, code |-> "", name |-> "value"]

\* the policies retry is called with: { ...DEFAULT_RETRY_OPTIONS, ...options }
Policies ==
  [maxAttempts       : 1..MaxAttempts,
   initialDelay      : 1..MaxInitialDelay,
   maxDelay          : 1..MaxDelayCap,
   backoffMultiplier : 1..MaxMultiplier,
   retryableErrors   : {{}, {"E_VALIDATION", "RateLimitError"}}]

RetryIdle ==
  /\ opts = DEFAULT_RETRY_OPTIONS
  /\ attempt = 0
  /\ rpc = "idle"
  /\ fnCalls = 0
  /\ thrown = << >>
  /\ onRetryLog = << >>
  /\ delays = << >>
  /\ outcome = NoOutcome

\* the loop head with attempt = n: fn is called, or the loop is left and
\* lastError is thrown
loopHead(n) ==
  /\ attempt' = n
  /\ IF n <= opts.maxAttempts
       THEN /\ rpc' = "calling"
            /\ fnCalls' = fnCalls + 1
            /\ outcome' = outcome
       ELSE /\ rpc' = "rejected"
            /\ fnCalls' = fnCalls
            /\ outcome' = IF thrown = << >> THEN NoOutcome ELSE thrown[Len(thrown)]

\* fn resolved: return await fn()
fnResolved(value) ==
  /\ rpc' = "resolved"
  /\ outcome' = value
  /\ UNCHANGED <<opts, attempt, fnCalls, thrown, onRetryLog, delays>>

\* the catch block calling onRetry for every failed attempt, the last one
\* included
fnRejectedAlwaysNotifies(error) ==
  /\ thrown' = Append(thrown, error)
  /\ onRetryLog' = Append(onRetryLog, <<error, attempt, Len(delays)>>)
  /\ IF catchDecision(attempt, error, opts) = "throw"
       THEN /\ rpc' = "rejected"
            /\ outcome' = error
            /\ UNCHANGED delays
       ELSE /\ rpc' = "sleeping"
            /\ outcome' = outcome
            /\ delays' = Append(delays, calculateDelay(attempt, opts))
  /\ UNCHANGED <<opts, attempt, fnCalls>>

\* fn rejected with error: the catch block.  onRetry(lastError, attempt) is
\* called before sleep(delay): the entry of the log holds, after the two
\* arguments, the number of delays that had started when onRetry was called
fnRejected(error) ==
  /\ thrown' = Append(thrown, error)
  /\ IF catchDecision(attempt, error, opts) = "throw"
       THEN /\ rpc' = "rejected"
            /\ outcome' = error
            /\ UNCHANGED <<onRetryLog, delays>>
       ELSE /\ rpc' = "sleeping"
            /\ outcome' = outcome
            /\ onRetryLog' = Append(onRetryLog, <<error, attempt, Len(delays)>>)
            /\ delays' = Append(delays, calculateDelay(attempt, opts))
  /\ UNCHANGED <<opts, attempt, fnCalls>>

RetryFrame == UNCHANGED <<storeVars, pipeVars, agentVars>>

\* retry(fn, options) is called
RetryStart ==
  /\ rpc = "idle"
  /\ loopHead(1)
  /\ UNCHANGED <<opts, thrown, onRetryLog, delays>>
  /\ RetryFrame

\* the operation resolves
FnResolves ==
  /\ rpc = "calling"
  /\ fnResolved(Value)
  /\ RetryFrame

\* the operation rejects
FnRejects ==
  \E kind \in ErrorKinds :
    /\ rpc = "calling"
    /\ fnRejected(MakeError(kind, attempt))
    /\ RetryFrame

\* sleep(delay) resolves: attempt++ and the loop head
SleepElapses ==
  /\ rpc = "sleeping"
  /\ loopHead(attempt + 1)
  /\ UNCHANGED <<opts, thrown, onRetryLog, delays>>
  /\ RetryFrame

(***************************************************************************)
(* BaseAgent: execute wraps executeWithTimeout in retry and turns the      *)
(* outcome into an AgentResult                                             *)
(***************************************************************************)
DefaultRetries == 3

\* new Error(`Agent timeout after ${timeout}ms`), with the default timeout
TimeoutError ==
  [message |-> <<"Agent", "timeout", "after", "300000ms">>, code |-> "", name |-> "Error"]

agentRetryablePatterns ==
  {Re(<<"rate", "limit">>, TRUE), Re(<<"timeout">>, TRUE), Re(<<"network">>, TRUE),
   Re(<<"ECONNRESET">>, FALSE), Re(<<"ETIMEDOUT">>, FALSE),
   Re(<<"429">>, FALSE), Re(<<"502">>, FALSE), Re(<<"503">>, FALSE),
   Re(<<"504">>, FALSE)}

BaseAgent_isRetryableError(error) ==
  \E pattern \in agentRetryablePatterns : Test(pattern, error.message)

\* retryCount counting the calls of fn instead of the retries
retryCountAttempts == fnCalls

\* retryCount, the variable onRetry assigns the attempt number to
retryCount ==
  IF onRetryLog = << >> THEN 0 ELSE onRetryLog[Len(onRetryLog)][2]

\* execute letting the error of retry escape
executeRethrows(settled, value, count) ==
  IF settled = "resolved"
    THEN [state |-> "resolved", result |-> <<AgentResult(TRUE, value.name, NoError, count)>>]
    ELSE [state |-> "rejected", result |-> << >>]

\* execute once retry has settled: the return of the try block or of the
\* catch block
execute(settled, value, count) ==
  IF settled = "resolved"
    THEN [state |-> "resolved", result |-> <<AgentResult(TRUE, value.name, NoError, count)>>]
    ELSE [state |-> "resolved",
          result |-> <<AgentResult(FALSE, "",
                         [message   |-> value.message,
                          code      |-> IF value.code # "" THEN value.code
                                                           ELSE "AGENT_ERROR",
                          retryable |-> BaseAgent_isRetryableError(value)],
                         count)>>]

\* a settlement reaching retry whenever it happens
executeWithTimeoutNoRace(k) == TRUE

\* Promise.race([run(input), timer]) of attempt k: the first of the two to
\* settle settles the race, the other one is ignored
executeWithTimeout(k) == race[k] = "pending"

\* the errors run() may reject with
RunErrorKinds ==
  {kind \in ErrorKinds : kind.code \in {"ETIMEDOUT", "E_VALIDATION", "ENOTFOUND"}}

\* the errors a progress callback may throw
CallbackErrorKinds ==
  {[message |-> <<"progress", "sink", "closed">>, code |-> "", name |-> "Error"],
   [message |-> <<"progress", "sink", "Timeout">>, code |-> "", name |-> "Error"]}

\* updateProgress(message, phase, progress): the callback, when one is set,
\* is called as it is, and what it throws leaves updateProgress
updateProgress ==
  IF progressCallback = "throws" THEN "throws" ELSE "returns"

\* the errors the run() of an agent may reject with: its own, and what an
\* updateProgress on its way threw
RunRejections ==
  IF updateProgress = "throws" THEN RunErrorKinds \cup CallbackErrorKinds
                               ELSE RunErrorKinds

AgentIdle ==
  /\ config = [retries |-> DefaultRetries]
  /\ progressCallback = "unset"
  /\ runState = << >>
  /\ timerState = << >>
  /\ race = << >>
  /\ execState = "idle"
  /\ results = << >>

AgentFrame == UNCHANGED <<storeVars, pipeVars, config, progressCallback>>

\* fn of retry is executeWithTimeout: a new call starts run() and arms a timer
fnCalled ==
  IF fnCalls' > fnCalls
    THEN /\ runState' = Append(runState, "running")
         /\ timerState' = Append(timerState, "armed")
         /\ race' = Append(race, "pending")
    ELSE UNCHANGED <<runState, timerState, race>>

\* the await of retry in execute: once retry has settled execute returns
retryAwaited ==
  IF rpc' \in {"resolved", "rejected"}
    THEN LET e == execute(rpc', outcome', retryCount')
         IN  /\ execState' = e.state
             /\ results' = results \o e.result
    ELSE UNCHANGED <<execState, results>>

Settle(k, by) == race' = [race EXCEPT ![k] = IF @ = "pending" THEN by ELSE @]

\* execute(input) is called: retry is called with maxAttempts and onRetry
ExecuteStart ==
  /\ execState = "idle"
  /\ opts' = [DEFAULT_RETRY_OPTIONS EXCEPT
                !.maxAttempts = IF config.retries # 0 THEN config.retries
                                                      ELSE DefaultRetries]
  /\ loopHead(1)
  /\ UNCHANGED <<thrown, onRetryLog, delays>>
  /\ fnCalled
  /\ execState' = "pending"
  /\ UNCHANGED results
  /\ AgentFrame

\* the run() of attempt k resolves: every updateProgress on its way returned
RunResolves ==
  \E k \in DOMAIN runState :
    /\ runState[k] = "running"
    /\ updateProgress = "returns"
    /\ runState' = [runState EXCEPT ![k] = "resolved"]
    /\ IF executeWithTimeout(k)
         THEN /\ Settle(k, "run")
              /\ fnResolved(Value)
              /\ retryAwaited
         ELSE UNCHANGED <<race, retryVars, execState, results>>
    /\ UNCHANGED timerState
    /\ AgentFrame

\* the run() of attempt k rejects
RunRejects ==
  \E k \in DOMAIN runState, kind \in RunRejections :
    /\ runState[k] = "running"
    /\ runState' = [runState EXCEPT ![k] = "rejected"]
    /\ IF executeWithTimeout(k)
         THEN /\ Settle(k, "run")
              /\ fnRejected(MakeError(kind, k))
              /\ retryAwaited
         ELSE UNCHANGED <<race, retryVars, execState, results>>
    /\ UNCHANGED timerState
    /\ AgentFrame

\* the timer of attempt k fires (it is never cleared)
AgentTimerFires ==
  \E k \in DOMAIN timerState :
    /\ timerState[k] = "armed"
    /\ timerState' = [timerState EXCEPT ![k] = "fired"]
    /\ IF executeWithTimeout(k)
         THEN /\ Settle(k, "timer")
              /\ fnRejected(MakeError(TimeoutError, k))
              /\ retryAwaited
         ELSE UNCHANGED <<race, retryVars, execState, results>>
    /\ UNCHANGED runState
    /\ AgentFrame

\* the sleep of retry resolves: the next attempt
AgentSleepElapses ==
  /\ rpc = "sleeping"
  /\ loopHead(attempt + 1)
  /\ UNCHANGED <<opts, thrown, onRetryLog, delays>>
  /\ fnCalled
  /\ retryAwaited
  /\ AgentFrame

(***************************************************************************)
(* Spec: the SessionManager API called in any order by any caller          *)
(***************************************************************************)
Call(op, id, arg) == [op |-> op, id |-> id, arg |-> arg]

StoreInit ==
  /\ sessions = << >>
  /\ timeoutHandlers = {}
  /\ timers = {}
  /\ nextId = 1
  /\ now = 0
  /\ events = [id \in SessionIds |-> EmptyBag]
  /\ lastCall = Call("new", 0, "")
  /\ calls = 0

ApiCall(op, id, arg, S) ==
  /\ calls < MaxCalls
  /\ calls' = calls + 1
  /\ lastCall' = Call(op, id, arg)
  /\ SetStore(S)
  /\ now' = now
  /\ UNCHANGED <<pipeVars, retryVars, agentVars>>

Create ==
  \E item \in {"qa1"} :
    /\ nextId <= MaxSessions
    /\ ApiCall("create", nextId, item, create(Store, nextId, item, now))
    /\ nextId' = nextId + 1

UpdateStatus ==
  \E id \in SessionIds, status \in SessionStatus, error \in {NoError, CallerError} :
    /\ ApiCall("updateStatus", id, status, updateStatus(Store, id, status, error, now))
    /\ nextId' = nextId

UpdatePhase ==
  \E id \in SessionIds, phase \in {ANALYSIS, CLASSIFICATION} :
    /\ ApiCall("updatePhase", id, phase, updatePhase(Store, id, phase, now))
    /\ nextId' = nextId

UpdateContext ==
  \E id \in SessionIds, key \in {"analysis"} :
    /\ ApiCall("updateContext", id, key, updateContext(Store, id, key, now))
    /\ nextId' = nextId

Close ==
  \E id \in SessionIds, status \in SessionStatus \cup {""} :
    /\ ApiCall("close", id, status, close(Store, id, status, now))
    /\ nextId' = nextId

Cleanup ==
  \E olderThan \in 0..MaxAge :
    /\ ApiCall("cleanup", 0, olderThan, cleanup(Store, olderThan, now))
    /\ nextId' = nextId

\* the armed timer of session id fires: the event loop runs its callback
TimerFired(id) ==
  /\ id \in timers
  /\ SetStore(timeoutCallback(Store, id, now))
  /\ lastCall' = Call("timer", id, "")
  /\ UNCHANGED <<nextId, now, calls>>
  /\ UNCHANGED <<pipeVars, retryVars, agentVars>>

\* an armed session timer fires
TimerFire == \E id \in SessionIds : TimerFired(id)

\* time passes
Tick ==
  /\ now < MaxTime
  /\ now' = now + 1
  /\ lastCall' = Call("tick", 0, "")
  /\ UNCHANGED <<sessions, timeoutHandlers, timers, events, nextId, calls>>
  /\ UNCHANGED <<pipeVars, retryVars, agentVars>>

\* the orchestrator as its constructor leaves it
DriverNew ==
  /\ isRunning = FALSE
  /\ pollingInterval = 0
  /\ intervals = {}
  /\ isConnected = FALSE
  /\ starting = 0
  /\ closing = 0
  /\ driverLog = << >>

\* the orchestrator is not running in Spec
PipeIdle ==
  /\ pc = [r \in Runs |-> "idle"]
  /\ runItem = [r \in Runs |-> ""]
  /\ runStatus = [r \in Runs |-> ""]
  /\ runSession = [r \in Runs |-> 0]
  /\ runError = [r \in Runs |-> << >>]
  /\ tracker = [i \in Items |-> NOT_STARTED]
  /\ comments = [i \in Items |-> << >>]
  /\ enabled = FALSE
  /\ notified = [i \in Items |-> << >>]
  /\ agentCalls = [r \in Runs |-> << >>]
  /\ agentResults = [r \in Runs |-> << >>]
  /\ polls = << >>
  /\ DriverNew

Init == StoreInit /\ PipeIdle /\ RetryIdle /\ AgentIdle

Next ==
  \/ Create
  \/ UpdateStatus
  \/ UpdatePhase
  \/ UpdateContext
  \/ Close
  \/ Cleanup
  \/ TimerFire
  \/ Tick

Spec == Init /\ [][Next]_vars

(***************************************************************************)
(* OrchestratorAgent: handleNewQA -> processQA -> completeQA /             *)
(* handleNotActionable / handleError.  A run is suspended at an await; an  *)
(* action is the continuation that runs when the awaited promise settles,  *)
(* up to the next await.                                                   *)
(***************************************************************************)

\* error descriptor of a failed Step Result
AgentTimeoutError ==
  [message |-> <<"Agent", "timeout", "after", "300000ms">>, code |-> "AGENT_ERROR",
   retryable |-> TRUE]

\* what an agent's execute() can resolve with: data is the shouldAct flag of
\* a ClassificationDecision, and stands for the payload of the other agents
StepResults ==
  {AgentResult(TRUE, d, NoError, 0) : d \in BOOLEAN} \cup
  {AgentResult(FALSE, FALSE, AgentTimeoutError, 2)}

\* message of an Error thrown by a call to the item tracker
NotionFailure == <<"Notion", "unavailable">>

\* message of the Error every method of the client throws when isConnected
\* is false
NotConnected == <<"Not", "connected", "to", "Notion", "MCP">>

\* whether a call of the item tracker can succeed: never without a connection
TrackerOutcomes == IF isConnected THEN BOOLEAN ELSE {FALSE}

\* message of the Error a failed call of the item tracker throws
TrackerError == IF isConnected THEN NotionFailure ELSE NotConnected

\* the orchestrator after initialize(): the client is connected
DriverInitialized ==
  /\ isRunning = FALSE
  /\ pollingInterval = 0
  /\ intervals = {}
  /\ isConnected = TRUE
  /\ starting = 0
  /\ closing = 0
  /\ driverLog = << >>

\* the orchestrator after initialize() and start(): the interval is set up
DriverStarted ==
  /\ isRunning = TRUE
  /\ pollingInterval = 1
  /\ intervals = {1}
  /\ isConnected = TRUE
  /\ starting = 0
  /\ closing = 0
  /\ driverLog = <<"start">>

\* the message naming the failed phase without the error of the Step Result
FailureMessageLabelOnly(phase, result) ==
  CASE phase = ANALYSIS       -> <<"QA Analysis failed:">>
    [] phase = CLASSIFICATION -> <<"Classification failed:">>
    [] phase = IMPLEMENTATION -> <<"Code implementation failed:">>
    [] phase = PR_CREATION    -> <<"PR creation failed:">>

\* `${label} failed: ${result.error?.message}`
FailureMessage(phase, result) ==
  (CASE phase = ANALYSIS       -> <<"QA Analysis failed:">>
     [] phase = CLASSIFICATION -> <<"Classification failed:">>
     [] phase = IMPLEMENTATION -> <<"Code implementation failed:">>
     [] phase = PR_CREATION    -> <<"PR creation failed:">>) \o result.error.message

SetPc(r, label) == pc' = [pc EXCEPT ![r] = label]

\* addComment(pageId, comment): text is the error message the comment quotes
Comment(item, kind, text) ==
  comments' = [comments EXCEPT ![item] = Append(@, [kind |-> kind, text |-> text])]

\* message of an Error thrown by chat.postMessage
ChannelFailure == <<"Slack", "unavailable">>

\* the notifier letting the failure of the channel through
notifySettlesUncaught(posted) ==
  IF enabled /\ ~posted THEN "rejected" ELSE "resolved"

\* how the promise of SlackNotifier.notify* settles: a disabled notifier
\* returns at once, and the failure of chat.postMessage is caught and logged
notifySettles(posted) == "resolved"

\* SlackNotifier.notify*(qaItem, ...): the call and what became of it; text is
\* the error message the notification quotes
Notify(item, kind, text, posted) ==
  notified' = [notified EXCEPT ![item] =
     Append(@, [kind    |-> kind,
                text    |-> text,
                outcome |-> IF ~enabled THEN "disabled"
                            ELSE IF posted THEN "delivered" ELSE "failed"])]

\* the catch block of processQA without the rethrow: the session is marked
\* FAILED and handleNewQA returns as after a success
processQACatchSwallows(S, r, message) ==
  /\ SetStore(updateStatus(S, runSession[r], FAILED,
                           [message |-> message, code |-> "PROCESSING_ERROR",
                            retryable |-> FALSE], now))
  /\ runError' = [runError EXCEPT ![r] = message]
  /\ SetPc(r, "done")

\* the catch block of processQA followed by the catch block of handleNewQA,
\* which starts handleError: session FAILED, error rethrown, then
\* updatePageStatus(IN_REVIEW) is called
processQACatch(S, r, message) ==
  /\ SetStore(updateStatus(S, runSession[r], FAILED,
                           [message |-> message, code |-> "PROCESSING_ERROR",
                            retryable |-> FALSE], now))
  /\ runError' = [runError EXCEPT ![r] = message]
  /\ SetPc(r, "errStatus")

\* the invocations of handleNewQA the state has room for
Invocations == DOMAIN pc

RunFrame ==
  UNCHANGED <<now, lastCall, calls, enabled, driverVars, retryVars, agentVars>>

PipeFrame == RunFrame /\ UNCHANGED polls

\* what the execute() of an agent can resolve with
ResultsOf(agent) ==
  IF agent = CLASSIFICATION THEN StepResults
                            ELSE {result \in StepResults : result.success => result.data}

\* `await agent.execute(...)` resumes with result
Returned(r, result) ==
  agentResults' = [agentResults EXCEPT ![r] = Append(@, result)]

\* the status gate of handleNewQA
shouldProcessUnlessDone(status) == status # DONE

shouldProcess(status) == status = NOT_STARTED

\* the decision always taken as actionable
shouldActAlways(result) == TRUE

\* classificationResult.data?.shouldAct
shouldAct(result) == result.data

\* handleNewQA(qaItem) up to the first await that leaves the process (runs
\* are numbered in the order of their invocation); qaItem.status is the status
\* the page had when it was read, whatever the page says by now:
\* the status gate, then processQA: create, updateStatus(RUNNING), and the
\* call of updatePageStatus(IN_PROGRESS)
handleNewQA(r, item, status) ==
  /\ pc[r] = "idle"
  /\ \A q \in Invocations : q < r => pc[q] # "idle"
  /\ runItem' = [runItem EXCEPT ![r] = item]
  /\ runStatus' = [runStatus EXCEPT ![r] = status]
  /\ IF ~shouldProcess(status)
       THEN /\ SetPc(r, "skipped")
            /\ UNCHANGED <<sessions, timeoutHandlers, timers, events,
                           nextId, runSession>>
       ELSE /\ nextId <= MaxSessions
            /\ SetStore(updateStatus(create(Store, nextId, item, now),
                                     nextId, RUNNING, NoError, now))
            /\ nextId' = nextId + 1
            /\ runSession' = [runSession EXCEPT ![r] = nextId]
            /\ SetPc(r, "inProgress")
  /\ UNCHANGED <<runError, tracker, comments, notified, agentCalls, agentResults>>
  /\ RunFrame

\* item was handed to handleNewQA before, or is the first page that was not
\* (the items are interchangeable)
NextItem(item) ==
  \E k \in DOMAIN ItemOrder :
    /\ ItemOrder[k] = item
    /\ \A j \in 1..(k - 1) : \E q \in Invocations : runItem[q] = ItemOrder[j]

\* handleNewQA is invoked with some item in some status
HandleNewQA ==
  \E r \in Invocations, item \in Items, status \in QAStatus :
    /\ NextItem(item)
    /\ handleNewQA(r, item, status)
    /\ UNCHANGED polls

\* updatePageStatus(IN_PROGRESS) settles; on success notifyStart is called
InProgressReturns ==
  \E r \in Invocations, ok \in TrackerOutcomes :
    /\ pc[r] = "inProgress"
    /\ IF ok
         THEN /\ tracker' = [tracker EXCEPT ![runItem[r]] = IN_PROGRESS]
              /\ SetPc(r, "notifyStart")
              /\ UNCHANGED <<sessions, timeoutHandlers, timers, events, runError>>
         ELSE /\ processQACatch(Store, r, TrackerError)
              /\ UNCHANGED tracker
    /\ UNCHANGED <<nextId, runItem, runStatus, runSession, comments, notified,
                   agentCalls, agentResults>>
    /\ PipeFrame

\* the execute() of the agent called a second time while the first call is
\* awaited
StartAgentTwice(r, agent) ==
  /\ agentCalls' = [agentCalls EXCEPT ![r] = Append(Append(@, agent), agent)]
  /\ SetPc(r, agent)

\* an agent is constructed and its execute() is called
StartAgent(r, agent) ==
  /\ agentCalls' = [agentCalls EXCEPT ![r] = Append(@, agent)]
  /\ SetPc(r, agent)

\* notifyStart settles; updatePhase(ANALYSIS); the analyzer is started
NotifyStartReturns ==
  \E r \in Invocations, posted \in BOOLEAN :
    /\ pc[r] = "notifyStart"
    /\ Notify(runItem[r], "start", << >>, posted)
    /\ IF notifySettles(posted) = "rejected"
         THEN /\ processQACatch(Store, r, ChannelFailure)
              /\ UNCHANGED agentCalls
         ELSE /\ SetStore(updatePhase(Store, runSession[r], ANALYSIS, now))
              /\ StartAgent(r, ANALYSIS)
              /\ UNCHANGED runError
    /\ UNCHANGED <<nextId, runItem, runStatus, runSession, tracker, comments,
                   agentResults>>
    /\ PipeFrame

\* qaAnalyzer.execute() resolves
AnalysisReturns ==
  \E r \in Invocations, result \in ResultsOf(ANALYSIS) :
    /\ pc[r] = ANALYSIS
    /\ Returned(r, result)
    /\ IF ~result.success
         THEN /\ processQACatch(Store, r, FailureMessage(ANALYSIS, result))
              /\ UNCHANGED agentCalls
         ELSE /\ SetStore(updatePhase(
                   updateContext(Store, runSession[r], "analysis", now),
                   runSession[r], CLASSIFICATION, now))
              /\ StartAgent(r, CLASSIFICATION)
              /\ UNCHANGED runError
    /\ UNCHANGED <<nextId, runItem, runStatus, runSession, tracker, comments, notified>>
    /\ PipeFrame

\* actionClassifier.execute() resolves; a decision with shouldAct = false
\* starts handleNotActionable
ClassificationReturns ==
  \E r \in Invocations, result \in ResultsOf(CLASSIFICATION) :
    /\ pc[r] = CLASSIFICATION
    /\ Returned(r, result)
    /\ IF ~result.success
         THEN /\ processQACatch(Store, r, FailureMessage(CLASSIFICATION, result))
              /\ UNCHANGED agentCalls
         ELSE IF ~shouldAct(result)
           THEN /\ SetStore(updateContext(Store, runSession[r], "decision", now))
                /\ SetPc(r, "naStatus")
                /\ UNCHANGED <<agentCalls, runError>>
           ELSE /\ SetStore(updatePhase(
                     updateContext(Store, runSession[r], "decision", now),
                     runSession[r], IMPLEMENTATION, now))
                /\ StartAgent(r, IMPLEMENTATION)
                /\ UNCHANGED runError
    /\ UNCHANGED <<nextId, runItem, runStatus, runSession, tracker, comments, notified>>
    /\ PipeFrame

\* codeAgent.execute() resolves
ImplementationReturns ==
  \E r \in Invocations, result \in ResultsOf(IMPLEMENTATION) :
    /\ pc[r] = IMPLEMENTATION
    /\ Returned(r, result)
    /\ IF ~result.success
         THEN /\ processQACatch(Store, r, FailureMessage(IMPLEMENTATION, result))
              /\ UNCHANGED agentCalls
         ELSE /\ SetStore(updatePhase(
                   updateContext(Store, runSession[r], "codeChanges", now),
                   runSession[r], PR_CREATION, now))
              /\ StartAgent(r, PR_CREATION)
              /\ UNCHANGED runError
    /\ UNCHANGED <<nextId, runItem, runStatus, runSession, tracker, comments, notified>>
    /\ PipeFrame

\* the report of the PR manager taken as a success whatever it says
prCreatedAlways(result) == TRUE

\* the test of prResult that processQA makes before completeQA
prCreated(result) == result.success

\* prManager.execute() resolves; on success completeQA is started
PRCreationReturns ==
  \E r \in Invocations, result \in ResultsOf(PR_CREATION) :
    /\ pc[r] = PR_CREATION
    /\ Returned(r, result)
    /\ IF ~prCreated(result)
         THEN processQACatch(Store, r, FailureMessage(PR_CREATION, result))
         ELSE /\ SetStore(updatePhase(
                   updateContext(Store, runSession[r], "pullRequest", now),
                   runSession[r], COMPLETION, now))
              /\ SetPc(r, "doneStatus")
              /\ UNCHANGED runError
    /\ UNCHANGED <<nextId, runItem, runStatus, runSession, tracker, comments, notified,
                   agentCalls>>
    /\ PipeFrame

\* a call of the item tracker made by handleNotActionable or completeQA
\* settles: its effect and the next label on success, the catch block of
\* processQA on failure
TrackerStep(r, from, ok, status, comment, to) ==
  /\ pc[r] = from
  /\ IF ok
       THEN /\ tracker' = IF status = "" THEN tracker
                          ELSE [tracker EXCEPT ![runItem[r]] = status]
            /\ IF comment = "" THEN UNCHANGED comments
                               ELSE Comment(runItem[r], comment, << >>)
            /\ SetPc(r, to)
            /\ UNCHANGED <<sessions, timeoutHandlers, timers, events, runError>>
       ELSE /\ processQACatch(Store, r, TrackerError)
            /\ UNCHANGED <<tracker, comments>>
  /\ UNCHANGED <<nextId, runItem, runStatus, runSession, notified, agentCalls, agentResults>>
  /\ PipeFrame

\* handleNotActionable: updatePageStatus(NOT_ACTIONABLE) settles
NaStatusReturns ==
  \E r \in Invocations, ok \in TrackerOutcomes :
    TrackerStep(r, "naStatus", ok, NOT_ACTIONABLE, "", "naComment")

\* handleNotActionable: addComment settles
NaCommentReturns ==
  \E r \in Invocations, ok \in TrackerOutcomes :
    TrackerStep(r, "naComment", ok, "", "not-actionable", "naNotify")

\* the last notification of a normal path settles: close(COMPLETED), return
NotifyAndClose(r, from, kind, posted) ==
  /\ pc[r] = from
  /\ Notify(runItem[r], kind, << >>, posted)
  /\ IF notifySettles(posted) = "rejected"
       THEN processQACatch(Store, r, ChannelFailure)
       ELSE /\ SetStore(close(Store, runSession[r], COMPLETED, now))
            /\ SetPc(r, "done")
            /\ UNCHANGED runError
  /\ UNCHANGED <<nextId, runItem, runStatus, runSession, tracker, comments,
                 agentCalls, agentResults>>
  /\ PipeFrame

\* handleNotActionable: notifyNotActionable settles
NaNotifyReturns ==
  \E r \in Invocations, posted \in BOOLEAN :
    NotifyAndClose(r, "naNotify", "not-actionable", posted)

\* completeQA: updatePageStatus(DONE) settles
DoneStatusReturns ==
  \E r \in Invocations, ok \in TrackerOutcomes :
    TrackerStep(r, "doneStatus", ok, DONE, "", "doneComment")

\* completeQA: addComment settles
DoneCommentReturns ==
  \E r \in Invocations, ok \in TrackerOutcomes :
    TrackerStep(r, "doneComment", ok, "", "completed", "doneProperties")

\* completeQA: updatePageProperties settles; its failure is caught and logged
DonePropertiesReturns ==
  \E r \in Invocations, ok \in TrackerOutcomes :
    /\ pc[r] = "doneProperties"
    /\ SetPc(r, "doneNotify")
    /\ UNCHANGED <<sessions, timeoutHandlers, timers, events, nextId, runItem,
                   runStatus, runSession, runError, tracker, comments, notified,
                   agentCalls, agentResults>>
    /\ PipeFrame

\* completeQA: notifySuccess settles
DoneNotifyReturns ==
  \E r \in Invocations, posted \in BOOLEAN :
    NotifyAndClose(r, "doneNotify", "success", posted)

\* a call of the item tracker made by handleError settles; its failure
\* rejects handleNewQA
ErrorStep(r, from, ok, status, comment, to) ==
  /\ pc[r] = from
  /\ IF ok
       THEN /\ tracker' = IF status = "" THEN tracker
                          ELSE [tracker EXCEPT ![runItem[r]] = status]
            /\ IF comment = "" THEN UNCHANGED comments
                               ELSE Comment(runItem[r], comment, runError[r])
            /\ SetPc(r, to)
       ELSE /\ SetPc(r, "rejected")
            /\ UNCHANGED <<tracker, comments>>
  /\ UNCHANGED <<sessions, timeoutHandlers, timers, events, nextId, runItem,
                 runStatus, runSession, runError, notified, agentCalls,
                 agentResults>>
  /\ PipeFrame

\* handleError: updatePageStatus(IN_REVIEW) settles
ErrStatusReturns ==
  \E r \in Invocations, ok \in TrackerOutcomes :
    ErrorStep(r, "errStatus", ok, IN_REVIEW, "", "errComment")

\* handleError: addComment settles
ErrCommentReturns ==
  \E r \in Invocations, ok \in TrackerOutcomes :
    ErrorStep(r, "errComment", ok, "", "failed", "errNotify")

\* handleError: notifyError settles; handleNewQA returns
ErrNotifyReturns ==
  \E r \in Invocations, posted \in BOOLEAN :
    /\ pc[r] = "errNotify"
    /\ Notify(runItem[r], "error", runError[r], posted)
    /\ SetPc(r, IF notifySettles(posted) = "rejected" THEN "rejected" ELSE "done")
    /\ UNCHANGED <<sessions, timeoutHandlers, timers, events, nextId, runItem,
                   runStatus, runSession, runError, tracker, comments, agentCalls,
                   agentResults>>
    /\ PipeFrame

PipelineNext ==
  \/ HandleNewQA
  \/ InProgressReturns
  \/ NotifyStartReturns
  \/ AnalysisReturns
  \/ ClassificationReturns
  \/ ImplementationReturns
  \/ PRCreationReturns
  \/ NaStatusReturns
  \/ NaCommentReturns
  \/ NaNotifyReturns
  \/ DoneStatusReturns
  \/ DoneCommentReturns
  \/ DonePropertiesReturns
  \/ DoneNotifyReturns
  \/ ErrStatusReturns
  \/ ErrCommentReturns
  \/ ErrNotifyReturns
  \/ TimerFire

\* the orchestrator is constructed: the notifier is enabled when the
\* environment holds a bot token
PipelineInit ==
  /\ StoreInit /\ RetryIdle /\ AgentIdle
  /\ pc = [r \in Runs |-> "idle"]
  /\ runItem = [r \in Runs |-> ""]
  /\ runStatus = [r \in Runs |-> ""]
  /\ runSession = [r \in Runs |-> 0]
  /\ runError = [r \in Runs |-> << >>]
  /\ tracker = [i \in Items |-> NOT_STARTED]
  /\ comments = [i \in Items |-> << >>]
  /\ enabled \in BOOLEAN
  /\ notified = [i \in Items |-> << >>]
  /\ agentCalls = [r \in Runs |-> << >>]
  /\ agentResults = [r \in Runs |-> << >>]
  /\ polls = << >>
  /\ DriverInitialized

PipelineSpec == PipelineInit /\ [][PipelineNext]_vars

\* a timer armed with setTimeout fires once its delay has elapsed: the event
\* loop runs the callback of every timer that stays armed
TimersFire == \A id \in SessionIds : WF_vars(TimerFired(id))

LivePipelineSpec == PipelineSpec /\ TimersFire

(***************************************************************************)
(* OrchestratorAgent.setupPolling: the intake.  Every tick of the interval *)
(* timer starts a callback of its own, which queries the item tracker for  *)
(* the Not Started items and hands them to handleNewQA one after the other.*)
(* subscribeToDatabase never invokes its callback.                         *)
(***************************************************************************)

\* queryDatabase(status): the items whose page has that status now
queryDatabase(status) == SelectSeq(ItemOrder, LAMBDA i : tracker[i] = status)

\* a callback suspended in `await queryDatabase`
Querying == [state |-> "query", got |-> << >>, left |-> << >>, run |-> 0]

\* the invocation handleNewQA gets next
FreeRuns == {r \in Invocations : pc[r] = "idle"}

NextRun == CHOOSE r \in FreeRuns : \A q \in FreeRuns : r <= q

\* the body of the for loop: handleNewQA(qaItem) is called for the first of
\* items and awaited, or the loop is over
loopStep(p, got, items) ==
  IF items = << >>
    THEN /\ polls' = [polls EXCEPT ![p] =
                        [state |-> "ended", got |-> got, left |-> << >>, run |-> 0]]
         /\ UNCHANGED <<sessions, timeoutHandlers, timers, events, nextId, pc, runItem,
                        runStatus, runSession, runError, tracker, comments, notified,
                        agentCalls, agentResults>>
         /\ RunFrame
    ELSE /\ FreeRuns # {}
         /\ handleNewQA(NextRun, Head(items), NOT_STARTED)
         /\ polls' = [polls EXCEPT ![p] =
                        [state |-> "loop", got |-> got, left |-> Tail(items),
                         run |-> NextRun]]

\* a callback that returned at once because isRunning was false
Idled == [state |-> "stopped", got |-> << >>, left |-> << >>, run |-> 0]

\* an interval timer that was not cleared fires: the callback returns at once
\* when isRunning is false, and calls queryDatabase(NOT_STARTED) otherwise
pollTick(limit) ==
  /\ intervals # {}
  /\ Len(polls) < limit
  /\ polls' = Append(polls, IF isRunning THEN Querying ELSE Idled)
  /\ UNCHANGED <<storeVars, pc, runItem, runStatus, runSession, runError, tracker,
                 comments, enabled, notified, agentCalls, agentResults,
                 driverVars, retryVars, agentVars>>

\* queryDatabase resolves and the loop starts, or it rejects and the catch
\* block of the callback logs the error
QueryReturns ==
  \E p \in DOMAIN polls, ok \in TrackerOutcomes :
    /\ polls[p].state = "query"
    /\ IF ok
         THEN loopStep(p, queryDatabase(NOT_STARTED), queryDatabase(NOT_STARTED))
         ELSE /\ polls' = [polls EXCEPT ![p].state = "error"]
              /\ UNCHANGED <<sessions, timeoutHandlers, timers, events, nextId, pc,
                             runItem, runStatus, runSession, runError, tracker,
                             comments, notified, agentCalls, agentResults>>
              /\ RunFrame

\* the awaited handleNewQA returns and the loop goes on
HandledReturns ==
  \E p \in DOMAIN polls :
    /\ polls[p].state = "loop"
    /\ pc[polls[p].run] \in {"done", "skipped"}
    /\ loopStep(p, polls[p].got, polls[p].left)

\* the awaited handleNewQA rejects: the loop is left for the catch block of
\* the callback, which logs the error
HandledRejects ==
  \E p \in DOMAIN polls :
    /\ polls[p].state = "loop"
    /\ pc[polls[p].run] = "rejected"
    /\ polls' = [polls EXCEPT ![p].state = "error", ![p].run = 0]
    /\ UNCHANGED <<storeVars, pc, runItem, runStatus, runSession, runError, tracker,
                   comments, enabled, notified, agentCalls, agentResults,
                   driverVars, retryVars, agentVars>>

IntakeInit ==
  /\ StoreInit /\ RetryIdle /\ AgentIdle
  /\ pc = [r \in 1..MaxHandled |-> "idle"]
  /\ runItem = [r \in 1..MaxHandled |-> ""]
  /\ runStatus = [r \in 1..MaxHandled |-> ""]
  /\ runSession = [r \in 1..MaxHandled |-> 0]
  /\ runError = [r \in 1..MaxHandled |-> << >>]
  /\ tracker = [i \in Items |-> NOT_STARTED]
  /\ comments = [i \in Items |-> << >>]
  /\ enabled \in BOOLEAN
  /\ notified = [i \in Items |-> << >>]
  /\ agentCalls = [r \in 1..MaxHandled |-> << >>]
  /\ agentResults = [r \in 1..MaxHandled |-> << >>]
  /\ polls = << >>
  /\ DriverStarted

PollTick == pollTick(MaxPolls)

\* a step of a callback of the interval or of a pipeline it started
IntakeStep ==
  \/ QueryReturns
  \/ HandledReturns
  \/ HandledRejects
  \/ InProgressReturns
  \/ NotifyStartReturns
  \/ AnalysisReturns
  \/ ClassificationReturns
  \/ ImplementationReturns
  \/ PRCreationReturns
  \/ NaStatusReturns
  \/ NaCommentReturns
  \/ NaNotifyReturns
  \/ DoneStatusReturns
  \/ DoneCommentReturns
  \/ DonePropertiesReturns
  \/ DoneNotifyReturns
  \/ ErrStatusReturns
  \/ ErrCommentReturns
  \/ ErrNotifyReturns
  \/ TimerFire

IntakeNext ==
  \/ PollTick
  \/ IntakeStep

IntakeSpec == IntakeInit /\ [][IntakeNext]_vars

(***************************************************************************)
(* Overlapping ticks: setInterval does not wait for the callback of the    *)
(* tick before, so the next tick can fire while a batch is being handled   *)
(***************************************************************************)
OverlapTick == pollTick(MaxOverlap)

\* the orchestrator is started with the notifier switched off; one page of
\* the item tracker is Not Started, the others are Done
OverlapInit ==
  /\ StoreInit /\ RetryIdle /\ AgentIdle
  /\ pc = [r \in 1..MaxOverlap |-> "idle"]
  /\ runItem = [r \in 1..MaxOverlap |-> ""]
  /\ runStatus = [r \in 1..MaxOverlap |-> ""]
  /\ runSession = [r \in 1..MaxOverlap |-> 0]
  /\ runError = [r \in 1..MaxOverlap |-> << >>]
  /\ tracker = [i \in Items |-> IF i = ItemOrder[1] THEN NOT_STARTED ELSE DONE]
  /\ comments = [i \in Items |-> << >>]
  /\ enabled = FALSE
  /\ notified = [i \in Items |-> << >>]
  /\ agentCalls = [r \in 1..MaxOverlap |-> << >>]
  /\ agentResults = [r \in 1..MaxOverlap |-> << >>]
  /\ polls = << >>
  /\ DriverStarted

OverlapNext ==
  \/ OverlapTick
  \/ IntakeStep

OverlapSpec == OverlapInit /\ [][OverlapNext]_vars

(***************************************************************************)
(* OrchestratorAgent.start and stop, called in any order by any caller,    *)
(* around the intake                                                       *)
(***************************************************************************)
DriverFrame ==
  UNCHANGED <<storeVars, pc, runItem, runStatus, runSession, runError, tracker,
              comments, enabled, notified, agentCalls, agentResults, polls,
              retryVars, agentVars>>

\* start() up to `await subscribeToDatabase`: it returns at once when
\* isRunning is set, and rejects with isRunning set when the client is not
\* connected
Start ==
  /\ Len(driverLog) < MaxDriverCalls
  /\ driverLog' = Append(driverLog, "start")
  /\ IF isRunning
       THEN UNCHANGED <<isRunning, starting>>
       ELSE /\ isRunning' = TRUE
            /\ starting' = IF isConnected THEN starting + 1 ELSE starting
  /\ UNCHANGED <<pollingInterval, intervals, isConnected, closing>>
  /\ DriverFrame

\* subscribeToDatabase resolved: setupPolling() stores the handle of a new
\* setInterval in pollingInterval, and start() returns
StartResumes ==
  /\ starting > 0
  /\ starting' = starting - 1
  /\ pollingInterval' = pollingInterval + 1
  /\ intervals' = intervals \cup {pollingInterval + 1}
  /\ UNCHANGED <<isRunning, isConnected, closing, driverLog>>
  /\ DriverFrame

\* stop() up to `await notionClient.disconnect()`: isRunning is reset, the
\* interval pollingInterval holds is cleared, and client.close() is called
stop ==
  /\ isRunning' = FALSE
  /\ intervals' = intervals \ {pollingInterval}
  /\ closing' = closing + 1

Stop ==
  /\ Len(driverLog) < MaxDriverCalls
  /\ driverLog' = Append(driverLog, "stop")
  /\ stop
  /\ UNCHANGED <<pollingInterval, isConnected, starting>>
  /\ DriverFrame

\* client.close() settles: isConnected is reset when it resolved; its
\* rejection is caught and logged; stop() returns
DisconnectReturns ==
  \E ok \in BOOLEAN :
    /\ closing > 0
    /\ closing' = closing - 1
    /\ isConnected' = IF ok THEN FALSE ELSE isConnected
    /\ UNCHANGED <<isRunning, pollingInterval, intervals, starting, driverLog>>
    /\ DriverFrame

\* the orchestrator is constructed and initialize() has connected the client;
\* one page of the item tracker is Not Started, the others are Done
DriverInit ==
  /\ StoreInit /\ RetryIdle /\ AgentIdle
  /\ pc = [r \in Runs |-> "idle"]
  /\ runItem = [r \in Runs |-> ""]
  /\ runStatus = [r \in Runs |-> ""]
  /\ runSession = [r \in Runs |-> 0]
  /\ runError = [r \in Runs |-> << >>]
  /\ tracker = [i \in Items |-> IF i = ItemOrder[1] THEN NOT_STARTED ELSE DONE]
  /\ comments = [i \in Items |-> << >>]
  /\ enabled \in BOOLEAN
  /\ notified = [i \in Items |-> << >>]
  /\ agentCalls = [r \in Runs |-> << >>]
  /\ agentResults = [r \in Runs |-> << >>]
  /\ polls = << >>
  /\ DriverInitialized

DriverNext ==
  \/ Start
  \/ StartResumes
  \/ Stop
  \/ DisconnectReturns
  \/ IntakeNext

DriverSpec == DriverInit /\ [][DriverNext]_vars

RetryInit ==
  /\ StoreInit /\ PipeIdle /\ AgentIdle
  /\ opts \in Policies
  /\ attempt = 0
  /\ rpc = "idle"
  /\ fnCalls = 0
  /\ thrown = << >>
  /\ onRetryLog = << >>
  /\ delays = << >>
  /\ outcome = NoOutcome

RetryNext ==
  \/ RetryStart
  \/ FnResolves
  \/ FnRejects
  \/ SleepElapses

RetrySpec == RetryInit /\ [][RetryNext]_vars

AgentInit ==
  /\ StoreInit /\ PipeIdle /\ RetryIdle
  /\ config \in [retries : 0..MaxAttempts]
  /\ progressCallback \in {"unset", "returns", "throws"}
  /\ runState = << >>
  /\ timerState = << >>
  /\ race = << >>
  /\ execState = "idle"
  /\ results = << >>

AgentNext ==
  \/ ExecuteStart
  \/ RunResolves
  \/ RunRejects
  \/ AgentTimerFires
  \/ AgentSleepElapses

AgentSpec == AgentInit /\ [][AgentNext]_vars

(***************************************************************************)
(* Properties                                                              *)
(***************************************************************************)

\* number of events emitted for session id that satisfy Matches
EventCount(id, Matches(_)) ==
  BagCardinality([e \in {x \in BagToSet(events[id]) : Matches(x)} |-> events[id][e]])

IsTerminalUpdate(e) == e.name = "session:updated" /\ e.status \in Terminal

IsTimeoutUpdate(e) == e.name = "session:updated" /\ e.status = TIMEOUT

IsTimeoutEvent(e) == e.name = "session:timeout"

\* handleNewQA has returned or rejected
Ended(r) == pc[r] \in {"done", "rejected", "skipped"}

\* C1: every session in the store has completedAt set if and only if its
\* status is COMPLETED, FAILED or TIMEOUT.
C1_CompletedAtIffTerminal ==
  \A id \in DOMAIN sessions :
    (sessions[id].completedAt # NoTime) <=> (sessions[id].status \in Terminal)

\* C5: a cleanup(maxAge) call removes a session if and only if its status is
\* COMPLETED or FAILED and now - completedAt > maxAge; every other session
\* (TIMEOUT, CREATED, RUNNING, whatever its age and earlier statuses) stays
\* in the store unchanged.
C5_CleanupRemovesExactly ==
  [][(lastCall'.op = "cleanup" /\ calls' = calls + 1) =>
       /\ DOMAIN sessions' \subseteq DOMAIN sessions
       /\ \A id \in DOMAIN sessions :
            /\ (id \notin DOMAIN sessions') <=>
                 (/\ sessions[id].status \in {COMPLETED, FAILED}
                  /\ now - sessions[id].completedAt > lastCall'.arg)
            /\ id \in DOMAIN sessions' => sessions'[id] = sessions[id]]_vars

\* C5 witness: a cleanup has just swept session 1 and kept session 2
C5_Witness ==
  /\ lastCall.op = "cleanup"
  /\ nextId = 3
  /\ DOMAIN sessions = {2}

\* C5 witness of the other half: a cleanup has just run over a TIMEOUT session
\* that carries an old completedAt from an earlier COMPLETED status
C5_WitnessTimeoutKept ==
  /\ lastCall.op = "cleanup"
  /\ \E id \in DOMAIN sessions :
       /\ sessions[id].status = TIMEOUT
       /\ sessions[id].completedAt # NoTime
       /\ now - sessions[id].completedAt > lastCall.arg

\* C2: once a session's status is COMPLETED, FAILED or TIMEOUT, no later step
\* (updateStatus, close, timer firing, pipeline step) changes it.
C2_TerminalIsFinal ==
  [][\A id \in DOMAIN sessions :
       (sessions[id].status \in Terminal /\ id \in DOMAIN sessions') =>
          sessions'[id].status = sessions[id].status]_vars

\* C3: a session created by processQA enters a terminal status exactly once:
\* never more than once, and once when the handling of its item has ended.
C3_TerminalExactlyOnce ==
  \A r \in Runs :
    runSession[r] # 0 =>
      /\ EventCount(runSession[r], IsTerminalUpdate) <= 1
      /\ Ended(r) => EventCount(runSession[r], IsTerminalUpdate) = 1

\* the timer of session id fired while it was RUNNING in phase IMPLEMENTATION
TimedOutInImplementation(id) ==
  EventCount(id, LAMBDA e : IsTimeoutEvent(e) /\ e.phase = IMPLEMENTATION) > 0

\* C4: when the session timer fires in phase IMPLEMENTATION with the session
\* RUNNING, there is, from then on and whatever the pipeline does later,
\* exactly one transition into TIMEOUT, made with the fixed descriptor, and
\* exactly one session:timeout event.
C4_TimeoutExactlyOnce ==
  \A id \in SessionIds :
    TimedOutInImplementation(id) =>
      /\ EventCount(id, IsTimeoutUpdate) = 1
      /\ EventCount(id, LAMBDA e : IsTimeoutUpdate(e) /\ e.code = "SESSION_TIMEOUT") = 1
      /\ EventCount(id, IsTimeoutEvent) = 1

\* C4 witness: the timer fired during IMPLEMENTATION, the code agent resolved
\* successfully afterwards and the run went on to its end
C4_Witness ==
  \E r \in Runs :
    /\ pc[r] = "done"
    /\ runSession[r] # 0
    /\ TimedOutInImplementation(runSession[r])
    /\ Includes(agentCalls[r], PR_CREATION)
    /\ tracker[runItem[r]] = DONE

RECURSIVE Power(_, _)
Power(b, e) == IF e = 0 THEN 1 ELSE b * Power(b, e - 1)

AllRetryable(errors) ==
  \A k \in DOMAIN errors : isRetryableError(errors[k], opts)

\* C6: when every attempt fails with a retryable error, retry with
\* maxAttempts = n calls the operation exactly n times and rejects with the
\* error of the n-th attempt.
C6_ExhaustsAllAttempts ==
  /\ fnCalls <= opts.maxAttempts
  /\ (rpc = "rejected" /\ AllRetryable(thrown)) =>
       /\ fnCalls = opts.maxAttempts
       /\ Len(thrown) = opts.maxAttempts
       /\ outcome = thrown[opts.maxAttempts]
       /\ outcome.id = opts.maxAttempts

\* C6 witness: three attempts, all failed with retryable errors, rejected
C6_Witness ==
  /\ rpc = "rejected"
  /\ opts.maxAttempts = 3
  /\ Len(thrown) = 3
  /\ AllRetryable(thrown)
  /\ thrown[2].message # thrown[3].message

\* C7: a failure classified non-retryable is the last attempt: no further
\* call, no delay and no onRetry call follow it, and retry rejects with that
\* error; so a non-retryable first failure means exactly one attempt.
C7_NonRetryableStops ==
  \A k \in DOMAIN thrown :
    ~isRetryableError(thrown[k], opts) =>
      /\ k = Len(thrown)
      /\ fnCalls = k
      /\ rpc = "rejected"
      /\ outcome = thrown[k]
      /\ Len(delays) = k - 1
      /\ Len(onRetryLog) = k - 1
      /\ \A i \in DOMAIN onRetryLog : onRetryLog[i][2] < k

\* C7 witness: the first failure is non-retryable while attempts remain
C7_Witness ==
  /\ rpc = "rejected"
  /\ opts.maxAttempts = 3
  /\ Len(thrown) = 1
  /\ ~isRetryableError(thrown[1], opts)
  /\ fnCalls = 1

\* C8: the k-th delay (between attempt k and attempt k+1) is
\* min(initialDelay * backoffMultiplier^(k-1), maxDelay); there is one delay
\* between consecutive attempts; with a multiplier >= 1 the delays never
\* decrease, and they never exceed maxDelay.
C8_BackoffDelays ==
  /\ rpc = "calling" => Len(delays) = attempt - 1
  /\ Len(delays) <= opts.maxAttempts - 1
  /\ \A k \in DOMAIN delays :
       /\ delays[k] = Min(opts.initialDelay * Power(opts.backoffMultiplier, k - 1),
                          opts.maxDelay)
       /\ delays[k] <= opts.maxDelay
       /\ (k > 1 /\ opts.backoffMultiplier >= 1) => delays[k - 1] <= delays[k]

\* C8 witness: two delays, the second one larger and cut down to maxDelay
C8_Witness ==
  /\ Len(delays) = 2
  /\ delays[1] < delays[2]
  /\ delays[2] = opts.maxDelay
  /\ opts.initialDelay * opts.backoffMultiplier > opts.maxDelay

\* the Step Result execute resolves with when the last attempt timed out
TimeoutResult(k) ==
  AgentResult(FALSE, "",
              [message |-> TimeoutError.message, code |-> "AGENT_ERROR",
               retryable |-> TRUE],
              k - 1)

\* C9: when the timer of an attempt settles the race, the attempt fails with
\* the timeout error, and when it was the last attempt the Step Result is the
\* timeout failure; a run() settling after its timer is discarded: the Step
\* Result stays as it is and there is no second result, no further attempt
\* failure and no further onRetry call.
C9_TimerWinsRace ==
  /\ Len(results) <= 1
  /\ Len(thrown) <= fnCalls
  /\ Len(onRetryLog) <= fnCalls
  /\ \A k \in DOMAIN race :
       race[k] = "timer" =>
         /\ Len(thrown) >= k
         /\ thrown[k] = MakeError(TimeoutError, k)
         /\ k = opts.maxAttempts => results = <<TimeoutResult(k)>>

\* C9 witness: the last attempt timed out, execute returned the timeout
\* failure, and run() of that attempt resolved afterwards
C9_Witness ==
  /\ execState = "resolved"
  /\ Len(race) = opts.maxAttempts
  /\ race[Len(race)] = "timer"
  /\ runState[Len(race)] = "resolved"
  /\ results = <<TimeoutResult(Len(race))>>

\* C10: the promise of execute never rejects; once retry has settled it has
\* resolved with one Step Result, which after a failure has success = false
\* and an error with the message of the error, a code and a retryable flag.
C10_ExecuteNeverRejects ==
  /\ execState # "rejected"
  /\ rpc \in {"resolved", "rejected"} => execState = "resolved"
  /\ execState = "resolved" =>
       /\ Len(results) = 1
       /\ results[1].success <=> rpc = "resolved"
       /\ ~results[1].success =>
            /\ results[1].error.message = outcome.message
            /\ results[1].error.message # << >>
            /\ results[1].error.code \notin {"", "none"}
            /\ results[1].error.retryable \in BOOLEAN

\* C10 witness: all three attempts failed, the last one with a rejection of
\* run(), and execute resolved with a failure
C10_Witness ==
  /\ execState = "resolved"
  /\ Len(thrown) = 3
  /\ race[3] = "run"
  /\ ~results[1].success

\* the agents of the four phases, in pipeline order
Phases == <<ANALYSIS, CLASSIFICATION, IMPLEMENTATION, PR_CREATION>>

\* number of entries of seq that satisfy Matches
Count(seq, Matches(_)) == Cardinality({i \in DOMAIN seq : Matches(seq[i])})

\* number of calls of the notifier of the given kind made for item
Notifications(item, kind) == Count(notified[item], LAMBDA n : n.kind = kind)

\* no other pipeline was started for the item of run r
OnlyRunOn(r) ==
  \A q \in Runs \ {r} : runSession[q] # 0 => runItem[q] # runItem[r]

\* a call of the item tracker made for run r failed
TrackerFailed(r) ==
  runError[r] \in {NotionFailure, NotConnected} \/ pc[r] = "rejected"

\* scenario A: the item was Not Started, the four agents succeeded with
\* shouldAct = true, the item tracker served every call, handleNewQA returned
ScenarioA(r) ==
  /\ Ended(r)
  /\ runStatus[r] = NOT_STARTED
  /\ Len(agentResults[r]) = 4
  /\ \A k \in 1..4 : agentResults[r][k].success
  /\ agentResults[r][2].data
  /\ ~TrackerFailed(r)

\* C11: in scenario A (item Not Started; analysis, classification with
\* shouldAct = true, implementation and PR creation succeed; the item tracker
\* serves its calls) the run ends with the session COMPLETED, the item Done,
\* exactly one success notification and no failure or not-actionable
\* notification, whether or not the session timer fired on the way.
C11_ScenarioACompletes ==
  \A r \in Runs :
    (ScenarioA(r) /\ OnlyRunOn(r)) =>
      /\ pc[r] = "done"
      /\ agentCalls[r] = Phases
      /\ sessions[runSession[r]].status = COMPLETED
      /\ tracker[runItem[r]] = DONE
      /\ Notifications(runItem[r], "success") = 1
      /\ Notifications(runItem[r], "error") = 0
      /\ Notifications(runItem[r], "not-actionable") = 0
      /\ enabled =>
           \E k \in DOMAIN notified[runItem[r]] :
             /\ notified[runItem[r]][k].kind = "success"
             /\ notified[runItem[r]][k].outcome \in {"delivered", "failed"}

\* C11 witness: scenario A has run to its end and the success notification
\* was delivered
C11_Witness ==
  \E r \in Runs :
    /\ ScenarioA(r)
    /\ tracker[runItem[r]] = DONE
    /\ \E k \in DOMAIN notified[runItem[r]] :
         notified[runItem[r]][k] = [kind |-> "success", text |-> << >>,
                                    outcome |-> "delivered"]

\* the classifier of run r has returned a decision with shouldAct = false
NotActionable(r) ==
  /\ Len(agentResults[r]) >= 2
  /\ agentResults[r][1].success
  /\ agentResults[r][2].success
  /\ ~agentResults[r][2].data

IsFailedUpdate(e) == e.name = "session:updated" /\ e.status = FAILED

\* C12: once classification has returned shouldAct = false, the pipeline
\* invokes no agent after the classifier and the session never enters
\* IMPLEMENTATION or a later phase; when handleNewQA has returned (the item
\* tracker having served its calls) the item is Not Actionable, the
\* not-actionable notification was sent once and no failure or success
\* notification, and the session was closed COMPLETED without ever being FAILED.
C12_NotActionableStops ==
  \A r \in Runs :
    NotActionable(r) =>
      /\ agentCalls[r] = <<ANALYSIS, CLASSIFICATION>>
      /\ sessions[runSession[r]].completedPhases = <<ANALYSIS, CLASSIFICATION>>
      /\ (Ended(r) /\ ~TrackerFailed(r) /\ OnlyRunOn(r)) =>
           /\ pc[r] = "done"
           /\ tracker[runItem[r]] = NOT_ACTIONABLE
           /\ Notifications(runItem[r], "not-actionable") = 1
           /\ Notifications(runItem[r], "error") = 0
           /\ Notifications(runItem[r], "success") = 0
           /\ sessions[runSession[r]].status = COMPLETED
           /\ EventCount(runSession[r], IsFailedUpdate) = 0
           /\ EventCount(runSession[r], LAMBDA e : e.name = "session:closed") = 1

\* C12 witness: a not-actionable run has returned with the item marked
C12_Witness ==
  \E r \in Runs :
    /\ NotActionable(r)
    /\ pc[r] = "done"
    /\ tracker[runItem[r]] = NOT_ACTIONABLE
    /\ sessions[runSession[r]].status = COMPLETED

\* the words of msg occur in text, in order and next to each other
Contains(text, msg) ==
  \E i \in 1..(Len(text) - Len(msg) + 1) : SubSeq(text, i, i + Len(msg) - 1) = msg

\* the analyzer of run r has returned a failure (its attempts are used up)
AnalysisFailed(r) ==
  /\ Len(agentResults[r]) >= 1
  /\ ~agentResults[r][1].success

\* C13: once the analysis agent has returned its failure, no other agent is
\* invoked and the session is FAILED, carrying the underlying error message;
\* when handleNewQA has returned (the item tracker having served the calls of
\* handleError) the item is In Review, and the failure comment and the one
\* failure notification quote the underlying error message.
C13_AnalysisFailureReported ==
  \A r \in Runs :
    AnalysisFailed(r) =>
      LET underlying == agentResults[r][1].error.message
          item == runItem[r]
      IN  /\ underlying # << >>
          /\ agentCalls[r] = <<ANALYSIS>>
          /\ Len(agentResults[r]) = 1
          /\ sessions[runSession[r]].status = FAILED
          /\ Contains(sessions[runSession[r]].error.message, underlying)
          /\ pc[r] \in {"errStatus", "errComment", "errNotify", "done", "rejected"}
          /\ (pc[r] = "done" /\ OnlyRunOn(r)) =>
               /\ tracker[item] = IN_REVIEW
               /\ Count(comments[item],
                        LAMBDA c : c.kind = "failed" /\ Contains(c.text, underlying)) = 1
               /\ Count(notified[item],
                        LAMBDA n : n.kind = "error" /\ Contains(n.text, underlying)) = 1
               /\ Notifications(item, "error") = 1
               /\ Notifications(item, "success") = 0
               /\ Notifications(item, "not-actionable") = 0

\* C13 witness: the analyzer failed after its retries and the failure was
\* reported to the tracker and delivered to the channel
C13_Witness ==
  \E r \in Runs :
    /\ AnalysisFailed(r)
    /\ agentResults[r][1].retryCount = 2
    /\ pc[r] = "done"
    /\ tracker[runItem[r]] = IN_REVIEW
    /\ \E k \in DOMAIN notified[runItem[r]] :
         /\ notified[runItem[r]][k].kind = "error"
         /\ notified[runItem[r]][k].outcome = "delivered"

\* the labels of handleError, and the two ways handleNewQA ends after it
FailurePath == {"errStatus", "errComment", "errNotify", "done", "rejected"}

\* C14: for every phase k, once its agent has returned success = false: that
\* result is the last one, the agents invoked are exactly those of phases
\* 1..k (no later agent, no second call of the failed one), the session is
\* FAILED with the phase's failure message, processQA has rejected with that
\* message and its caller is in handleError; when handleError has run through,
\* the item is In Review with one failure comment and one failure notification.
C14_FailedPhaseAborts ==
  \A r \in Runs :
    \A k \in DOMAIN agentResults[r] :
      ~agentResults[r][k].success =>
        LET message == FailureMessage(Phases[k], agentResults[r][k])
        IN  /\ k = Len(agentResults[r])
            /\ agentCalls[r] = SubSeq(Phases, 1, k)
            /\ sessions[runSession[r]].status = FAILED
            /\ sessions[runSession[r]].error =
                 [message |-> message, code |-> "PROCESSING_ERROR", retryable |-> FALSE]
            /\ runError[r] = message
            /\ pc[r] \in FailurePath
            /\ (pc[r] = "done" /\ OnlyRunOn(r)) =>
                 /\ tracker[runItem[r]] = IN_REVIEW
                 /\ Count(comments[runItem[r]], LAMBDA c : c.kind = "failed") = 1
                 /\ Notifications(runItem[r], "error") = 1
                 /\ Notifications(runItem[r], "success") = 0

\* C14 witness: the code agent (third phase) failed and the failure path ran
\* to its end
C14_Witness ==
  \E r \in Runs :
    /\ Len(agentResults[r]) = 3
    /\ ~agentResults[r][3].success
    /\ pc[r] = "done"
    /\ tracker[runItem[r]] = IN_REVIEW

\* the callback of poll p is over: its loop ended or its catch block ran
PollOver(p) == polls[p].state \in {"ended", "error"}

\* the items of poll p that were handed to handleNewQA
Handed(p) == SubSeq(polls[p].got, 1, Len(polls[p].got) - Len(polls[p].left))

\* C15: a failure while one item is handled does not stop the intake: when
\* the callback of a poll is over, every item its query returned has been
\* handed to handleNewQA, and a later tick of the timer is not held back.
C15_IntakeContinues ==
  \A p \in DOMAIN polls :
    PollOver(p) => /\ polls[p].left = << >>
                   /\ Handed(p) = polls[p].got

\* C16: the step in which handleNewQA is entered with an item whose status is
\* not Not Started creates no session, writes no tracker status or comment,
\* sends no notification and ends the invocation, which does nothing later;
\* entered with a Not Started item it creates the session of a pipeline.
C16_SkipsUnlessNotStarted ==
  [][\A r \in Runs :
       /\ (pc[r] = "idle" /\ pc'[r] # "idle") =>
            IF runStatus'[r] = NOT_STARTED
              THEN /\ pc'[r] = "inProgress"
                   /\ runSession'[r] \in (DOMAIN sessions') \ (DOMAIN sessions)
              ELSE /\ pc'[r] = "skipped"
                   /\ runSession'[r] = 0
                   /\ agentCalls'[r] = << >>
                   /\ UNCHANGED <<sessions, timeoutHandlers, timers, events, nextId,
                                  tracker, comments, notified>>
       /\ pc[r] = "skipped" =>
            /\ pc'[r] = "skipped"
            /\ runSession'[r] = 0
            /\ agentCalls'[r] = << >>]_vars

\* C16 witness: handleNewQA was entered with an item already In Progress and
\* returned, the store being empty
C16_Witness ==
  \E r \in Runs :
    /\ pc[r] = "skipped"
    /\ runStatus[r] = IN_PROGRESS
    /\ DOMAIN sessions = {}

\* C17: in every reachable state, a session whose status is COMPLETED, FAILED
\* or TIMEOUT has no armed timer and no entry in timeoutHandlers.
C17_TerminalDisarmsTimer ==
  \A id \in DOMAIN sessions :
    sessions[id].status \in Terminal =>
      /\ id \notin timers
      /\ id \notin timeoutHandlers

\* the last step was a call of one of the four updating methods
IsUpdateCall(call) == call.op \in {"updateStatus", "updatePhase", "updateContext", "close"}

\* C18: updateStatus, updatePhase, updateContext and close called with an id
\* that is not in the store return normally, emit no event and leave every
\* session, every armed timer and every timer handle as they were.
C18_UnknownIdIsNoOp ==
  [][(/\ calls' = calls + 1
      /\ IsUpdateCall(lastCall')
      /\ lastCall'.id \notin DOMAIN sessions) =>
        UNCHANGED <<sessions, timeoutHandlers, timers, events>>]_vars

\* C18 witness: close was just called with an unknown id while another
\* session exists with its timer armed
C18_Witness ==
  /\ lastCall.op = "close"
  /\ lastCall.id \notin DOMAIN sessions
  /\ DOMAIN sessions # {}
  /\ timers # {}
  /\ events[lastCall.id] = EmptyBag

\* C19: no step other than cleanup removes a session: after a create, any
\* updateStatus / updatePhase / updateContext / close call and any timer
\* firing leaves every stored session in the store, so getSessionCount does
\* not decrease; a closed session is still returned by get.
C19_OnlyCleanupRemoves ==
  [][lastCall'.op # "cleanup" =>
       /\ DOMAIN sessions \subseteq DOMAIN sessions'
       /\ getSessionCount(Store') >= getSessionCount(Store)
       /\ \A id \in DOMAIN sessions : get(Store', id).id = id]_vars

\* C19 witness: a stored session was closed and is still in the store
C19_Witness ==
  /\ lastCall.op = "close"
  /\ lastCall.id \in DOMAIN sessions
  /\ sessions[lastCall.id].status = COMPLETED
  /\ get(Store, lastCall.id) = sessions[lastCall.id]

\* the awaits of the four notifier calls
NotifyLabels == {"notifyStart", "naNotify", "doneNotify", "errNotify"}

\* C20: the step in which a notifier call settles does the same to the
\* pipeline whether the channel delivered, failed or was disabled: the item's
\* tracker status, its comments and the run's error are untouched, after
\* notifyStart the run goes on to the analysis with the session status as it
\* was, after notifySuccess / notifyNotActionable the session is closed
\* COMPLETED, and after notifyError handleNewQA returns with the session as
\* it was. A failure of the channel is never the error of a run.
C20_NotifierNeverDecides ==
  [][\A r \in Runs :
       (pc[r] \in NotifyLabels /\ pc'[r] # pc[r]) =>
         LET item == runItem[r]
             id   == runSession[r]
         IN  /\ Len(notified'[item]) = Len(notified[item]) + 1
             /\ notified'[item][Len(notified'[item])].outcome
                  \in {"delivered", "failed", "disabled"}
             /\ UNCHANGED <<tracker, comments, runError>>
             /\ runError[r] # ChannelFailure
             /\ pc[r] = "notifyStart" =>
                  /\ pc'[r] = ANALYSIS
                  /\ sessions'[id].status = sessions[id].status
             /\ pc[r] \in {"naNotify", "doneNotify"} =>
                  /\ pc'[r] = "done"
                  /\ sessions'[id].status = COMPLETED
             /\ pc[r] = "errNotify" =>
                  /\ pc'[r] = "done"
                  /\ sessions' = sessions]_vars

\* C20 witness: the channel failed for the start and for the success
\* notification of a run that ended with the session COMPLETED and the item Done
C20_Witness ==
  \E r \in Runs :
    /\ pc[r] = "done"
    /\ sessions[runSession[r]].status = COMPLETED
    /\ tracker[runItem[r]] = DONE
    /\ Len(notified[runItem[r]]) = 2
    /\ \A k \in 1..2 : notified[runItem[r]][k].outcome = "failed"

\* the run working for session id
RunOf(id) == CHOOSE r \in Invocations : runSession[r] = id

\* the run of session id is suspended at the execute() of an agent
AtAgent(id) ==
  /\ \E r \in Invocations : runSession[r] = id
  /\ pc[RunOf(id)] \in {ANALYSIS, CLASSIFICATION, IMPLEMENTATION, PR_CREATION}

\* session id was moved to TIMEOUT by its timer
TimedOut(id) ==
  /\ sessions[id].status = TIMEOUT
  /\ sessions[id].error = SessionTimeoutError
  /\ sessions[id].error.code = "SESSION_TIMEOUT"
  /\ ~sessions[id].error.retryable
  /\ EventCount(id, IsTimeoutEvent) = 1

\* C21: no session stays RUNNING for ever: a RUNNING session is ended by its
\* pipeline (COMPLETED or FAILED, which needs the current phase to return)
\* or, failing that, it is moved to TIMEOUT by its timer, with the code
\* SESSION_TIMEOUT, retryable false and one session:timeout event; and the
\* step of the timer during a phase leaves the run where it is: no execute()
\* settles, the run stays suspended at the same agent.
C21_RunningEndsOrTimesOut ==
  /\ \A id \in SessionIds :
       (id \in DOMAIN sessions /\ sessions[id].status = RUNNING)
         ~> (id \in DOMAIN sessions /\
               (sessions[id].status \in {COMPLETED, FAILED} \/ TimedOut(id)))
  /\ [][\A id \in SessionIds :
          (/\ id \in DOMAIN sessions /\ sessions[id].status = RUNNING
           /\ AtAgent(id)
           /\ sessions'[id].status = TIMEOUT)
            => /\ pc' = pc
               /\ agentResults' = agentResults
               /\ runError' = runError]_vars

\* C21 witness: the session is in TIMEOUT, put there by the timer, while its
\* run is still suspended at the execute() of the code agent, which has not
\* settled
C21_Witness ==
  \E r \in Runs :
    /\ runSession[r] # 0
    /\ pc[r] = IMPLEMENTATION
    /\ TimedOut(runSession[r])
    /\ Len(agentResults[r]) = 2
    /\ Len(agentCalls[r]) = 3

\* stop() was called and start() was not called since
Stopped == ~isRunning /\ \E i \in DOMAIN driverLog : driverLog[i] = "stop"

\* the step is a call of stop()
IsStopCall == driverLog' = Append(driverLog, "stop")

\* the step is a tick of the polling timer
IsPollTick == Len(polls') = Len(polls) + 1

\* C22: after stop() the poll timer is cancelled: no interval is left armed,
\* and a tick that begins after stop() neither queries the item tracker nor
\* hands an item to handleNewQA; the pipelines in flight are not interrupted
\* (the call of stop() changes no run, session or page, and no run fails
\* later for want of the connection stop() closed) and not awaited (stop()
\* can return whatever the runs are doing).
C22_StopCancelsPolling ==
  /\ [](Stopped => intervals = {})
  /\ [][(IsPollTick /\ Stopped) =>
          /\ polls'[Len(polls')].state = "stopped"
          /\ pc' = pc]_vars
  /\ [](\A p \in DOMAIN polls :
          polls[p].state = "stopped" => polls[p].got = << >> /\ polls[p].run = 0)
  /\ [][IsStopCall =>
          /\ pc' = pc
          /\ sessions' = sessions
          /\ tracker' = tracker]_vars
  /\ [](\A r \in Invocations : runError[r] # NotConnected)
  /\ [](closing > 0 => ENABLED DisconnectReturns)

\* C22: the part of the claim about the ticks alone
C22_StoppedTicksIdle ==
  [][(IsPollTick /\ Stopped) =>
       /\ polls'[Len(polls')].state = "stopped"
       /\ pc' = pc]_vars

\* C22: a tick fired after stop() and returned at once
C22_IdleTickReached ==
  \E p \in DOMAIN polls : polls[p].state = "stopped"

\* C22: stop() was called before start() had set the interval up, and the
\* interval is armed with the orchestrator stopped
C22_IntervalLeftArmed == Stopped /\ intervals # {} /\ closing = 0

\* C22: a run handed over by a poll failed at a call of the item tracker
\* because stop() had closed the connection, after its agents had succeeded
C22_RunCutOff ==
  \E r \in Invocations :
    /\ runError[r] = NotConnected
    /\ Len(agentResults[r]) = 4
    /\ pc[r] = "rejected"
    /\ tracker[runItem[r]] = IN_PROGRESS

\* C23: for an item handled by one run, the status of its page moves Not
\* Started -> In Progress -> Done in that order: In Progress is written from
\* Not Started before any agent is invoked (no agent runs on a page that is
\* still Not Started), and Done is written from In Progress only after the
\* four agents were invoked and PR creation returned success; every other
\* write is Not Actionable, from In Progress, or the In Review of a failure.
C23_StatusOrder ==
  /\ [](\A r \in Runs :
          (runSession[r] # 0 /\ OnlyRunOn(r) /\ agentCalls[r] # << >>)
            => tracker[runItem[r]] # NOT_STARTED)
  /\ [][\A r \in Runs :
          (/\ runSession[r] # 0
           /\ OnlyRunOn(r)
           /\ tracker'[runItem[r]] # tracker[runItem[r]])
            => \/ /\ tracker[runItem[r]] = NOT_STARTED
                  /\ tracker'[runItem[r]] = IN_PROGRESS
                  /\ agentCalls'[r] = << >>
               \/ /\ tracker[runItem[r]] = IN_PROGRESS
                  /\ tracker'[runItem[r]] = DONE
                  /\ agentCalls[r] = Phases
                  /\ Len(agentResults[r]) = 4
                  /\ agentResults[r][4].success
               \/ /\ tracker[runItem[r]] = IN_PROGRESS
                  /\ tracker'[runItem[r]] = NOT_ACTIONABLE
               \/ tracker'[runItem[r]] = IN_REVIEW]_vars

\* C23 witness: Done has just been written for an item whose run went through
\* In Progress and the four agents
C23_Witness ==
  \E r \in Runs :
    /\ pc[r] = "doneComment"
    /\ OnlyRunOn(r)
    /\ tracker[runItem[r]] = DONE
    /\ agentCalls[r] = Phases
    /\ agentResults[r][4].success

\* the last agent of run r returned success = false
PhaseFailed(r) ==
  /\ agentResults[r] # << >>
  /\ ~agentResults[r][Len(agentResults[r])].success

\* C24: when a phase has failed, the error stored on the FAILED session is
\* the error descriptor of the failing Step Result: the same message, the
\* same code and the same retryable flag.
C24_FailedErrorIsStepError ==
  \A r \in Runs :
    (PhaseFailed(r) /\ sessions[runSession[r]].status = FAILED) =>
      LET stepError == agentResults[r][Len(agentResults[r])].error
          stored    == sessions[runSession[r]].error
      IN  /\ stored.message = stepError.message
          /\ stored.code = stepError.code
          /\ stored.retryable = stepError.retryable

\* the step is the firing of the timer of session id
IsTimerFiring(id) ==
  /\ id \in timers
  /\ id \notin timers'
  /\ lastCall' = Call("timer", id, "")

\* C25: a session whose timer fires while its status is still CREATED goes
\* directly from CREATED to TIMEOUT.
C25_CreatedTimesOut ==
  [][\A id \in SessionIds :
       (/\ IsTimerFiring(id)
        /\ id \in DOMAIN sessions
        /\ sessions[id].status = CREATED)
         => sessions'[id].status = TIMEOUT]_vars

\* the step is the call updatePhase(id, phase) for a session of the store
IsUpdatePhase(id, phase) ==
  /\ calls' = calls + 1
  /\ lastCall' = Call("updatePhase", id, phase)
  /\ id \in DOMAIN sessions

\* C26: updatePhase(id, p) sets currentPhase to p and appends p to the
\* completed phases unless p is the entry appended last: the same phase twice
\* in a row is appended once, A, B, A appends A again, and no entry is removed
\* or reordered.
C26_AppendsUnlessLast ==
  [][\A id \in SessionIds, phase \in WorkflowPhase :
       IsUpdatePhase(id, phase) =>
         LET done == sessions[id].completedPhases
         IN  /\ sessions'[id].currentPhase = phase
             /\ sessions'[id].completedPhases =
                   IF done # << >> /\ done[Len(done)] = phase
                     THEN done
                     ELSE Append(done, phase)]_vars

\* C26: the part of the claim that holds: the entries already there stay, in
\* their order, and the same phase twice in a row is appended once
C26_NeverRemoves ==
  [][\A id \in SessionIds, phase \in WorkflowPhase :
       IsUpdatePhase(id, phase) =>
         LET done == sessions[id].completedPhases
         IN  /\ sessions'[id].currentPhase = phase
             /\ SubSeq(sessions'[id].completedPhases, 1, Len(done)) = done
             /\ (done # << >> /\ done[Len(done)] = phase)
                  => sessions'[id].completedPhases = done]_vars

\* error is one a progress callback threw
IsCallbackError(error) ==
  \E kind \in CallbackErrorKinds : error.message = kind.message

\* C28: a progress callback that throws when updateProgress calls it changes
\* nothing: no attempt fails with what the callback threw, and the Step
\* Result is a success or carries an error of the agent's own run.
C28_ProgressNeverAffects ==
  progressCallback = "throws" =>
    /\ \A k \in DOMAIN thrown : ~IsCallbackError(thrown[k])
    /\ \A k \in DOMAIN results :
         results[k].success \/ ~IsCallbackError(results[k].error)

\* C28: a throwing callback made every attempt fail, and execute resolved
\* with a failed Step Result after the last of them
C28_AttemptsSpent ==
  /\ progressCallback = "throws"
  /\ execState = "resolved"
  /\ fnCalls = 3
  /\ \A k \in DOMAIN thrown : IsCallbackError(thrown[k])
  /\ ~results[1].success

\* C29: the retryable flag of a failed Step Result is the default
\* classification retry makes of the same error (no explicit set of
\* retryable errors), and its code is the code of the error when the error
\* has one and AGENT_ERROR otherwise.
C29_SameClassification ==
  (execState = "resolved" /\ rpc = "rejected") =>
    \A k \in DOMAIN results :
      /\ ~results[k].success
      /\ results[k].error.message = outcome.message
      /\ results[k].error.retryable =
           isRetryableError(outcome, DEFAULT_RETRY_OPTIONS)
      /\ results[k].error.code =
           (IF outcome.code # "" THEN outcome.code ELSE "AGENT_ERROR")

\* C29: the part of the claim about the code alone
C29_CodeOrAgentError ==
  (execState = "resolved" /\ rpc = "rejected") =>
    \A k \in DOMAIN results :
      results[k].error.code =
        (IF outcome.code # "" THEN outcome.code ELSE "AGENT_ERROR")

\* C30: onRetry is called exactly once between two consecutive attempts, with
\* the error and the number of the attempt that failed, and before the delay
\* of that retry starts; it is not called after a non-retryable failure or
\* after the last attempt: the calls number one less than the attempts.
C30_OnRetryOncePerRetry ==
  /\ \A i \in DOMAIN onRetryLog :
       /\ onRetryLog[i][1] = thrown[i]
       /\ onRetryLog[i][1].id = i
       /\ onRetryLog[i][2] = i
       /\ onRetryLog[i][3] = i - 1
  /\ rpc = "sleeping" => Len(onRetryLog) = fnCalls /\ Len(delays) = fnCalls
  /\ rpc \in {"calling", "resolved", "rejected"} => Len(onRetryLog) = fnCalls - 1
  /\ rpc = "rejected" => Len(onRetryLog) = Len(thrown) - 1
  /\ rpc = "resolved" => Len(onRetryLog) = Len(thrown)

\* C30 witness: two retries, each announced to onRetry, then the third
\* attempt resolved
C30_Witness ==
  /\ rpc = "resolved"
  /\ fnCalls = 3
  /\ Len(onRetryLog) = 2
  /\ onRetryLog[2] = <<thrown[2], 2, 1>>

\* C30 witness: a non-retryable failure of the second attempt, with onRetry
\* called for the first attempt only
C30_WitnessNonRetryable ==
  /\ rpc = "rejected"
  /\ opts.maxAttempts = 3
  /\ fnCalls = 2
  /\ ~isRetryableError(thrown[2], opts)
  /\ Len(onRetryLog) = 1

\* the phases of the workflow a session goes through, in order
PhaseOrder == <<ANALYSIS, CLASSIFICATION, IMPLEMENTATION, PR_CREATION, COMPLETION>>

IsPrefix(seq, of) == Len(seq) <= Len(of) /\ seq = SubSeq(of, 1, Len(seq))

\* C27: in every run the phases come strictly in the order ANALYSIS,
\* CLASSIFICATION, IMPLEMENTATION, PR_CREATION, COMPLETION: the agents are
\* invoked in that order and each at most once, an agent is invoked only
\* when the Step Result of the one before it has returned (with success), the
\* run waits for the agent it invoked last, and the phases recorded on the
\* session follow the same order, COMPLETION coming after the four results.
C27_PhasesInOrder ==
  \A r \in Runs :
    runSession[r] # 0 =>
      LET called   == agentCalls[r]
          returned == agentResults[r]
          session  == sessions[runSession[r]]
      IN  /\ IsPrefix(called, Phases)
          /\ Len(returned) <= Len(called)
          /\ Len(called) <= Len(returned) + 1
          /\ \A k \in 1..(Len(called) - 1) : returned[k].success
          /\ Len(called) = Len(returned) + 1 <=> pc[r] \in {called[k] : k \in DOMAIN called}
          /\ pc[r] \in {ANALYSIS, CLASSIFICATION, IMPLEMENTATION, PR_CREATION}
               => pc[r] = called[Len(called)]
          /\ IsPrefix(session.completedPhases, PhaseOrder)
          /\ session.completedPhases # << >>
               => session.currentPhase =
                    session.completedPhases[Len(session.completedPhases)]
          /\ Len(session.completedPhases) \in {Len(called), Len(called) + 1}
          /\ Len(session.completedPhases) = Len(called) + 1
               => /\ Len(returned) = 4
                  /\ returned[4].success

\* C27 witness: the five phases were gone through, with the four agents
\* invoked once each, and the run is in completeQA
C27_Witness ==
  \E r \in Runs :
    /\ pc[r] = "doneNotify"
    /\ agentCalls[r] = Phases
    /\ Len(agentResults[r]) = 4
    /\ sessions[runSession[r]].completedPhases = PhaseOrder

\* the sessions of an item that are CREATED or RUNNING
LiveSessionsOf(item) ==
  {id \in DOMAIN sessions : /\ sessions[id].qaItemId = item
                            /\ sessions[id].status \in {CREATED, RUNNING}}

\* C31: at any moment an item has at most one session that is CREATED or
\* RUNNING, also when ticks of the polling timer overlap.  Violated: the gate
\* of handleNewQA is the status the query returned, and the item stays Not
\* Started until updatePageStatus(IN_PROGRESS) of the first run settles, so
\* the query of the next tick returns the item again and a second session is
\* created for it.
C31_OneLiveSessionPerItem ==
  \A item \in Items : Cardinality(LiveSessionsOf(item)) <= 1

\* the session of run r was moved to TIMEOUT by its timer at some earlier time
TimerEndedRun(r) ==
  /\ runSession[r] # 0
  /\ EventCount(runSession[r], IsTimeoutEvent) > 0

\* C32: once the session timer has moved a session to TIMEOUT, the driver
\* starts no further phase for it, updates the status of its item in the
\* tracker no more and sends no further notification for it.  Violated: the
\* timer callback changes the session only; processQA is not told, and when
\* the awaited agent resolves it goes on with the next phase and with
\* completeQA.
C32_TimedOutRunIsAbandoned ==
  [][\A r \in Runs :
       TimerEndedRun(r) =>
         /\ agentCalls'[r] = agentCalls[r]
         /\ tracker'[runItem[r]] = tracker[runItem[r]]
         /\ notified'[runItem[r]] = notified[runItem[r]]]_vars

\* C33: every session whose status is RUNNING has an armed timeout timer,
\* after any sequence of create, updateStatus and close calls and of timer
\* firings.  Violated: the timer is armed once, by create; fired on a CREATED
\* session it is spent without effect, and cleared by a terminal update it is
\* never armed again, while updateStatus(id, RUNNING) is accepted afterwards.
C33_RunningHasArmedTimer ==
  \A id \in DOMAIN sessions :
    sessions[id].status = RUNNING => id \in timers

\* the attempts whose run() has neither resolved nor rejected
RunsInFlight == {k \in DOMAIN runState : runState[k] = "running"}

\* C34: during one execute of an agent at most one run() is in flight at any
\* time, also after an attempt lost the race against the timeout and retry
\* started the next attempt.  Violated: executeWithTimeout settles with the
\* timer's rejection and leaves the run() that lost the race running, the
\* timeout error is retryable, and the next attempt calls run() again.
C34_OneRunInFlight == Cardinality(RunsInFlight) <= 1

\* C34, second half: when execute has returned its Step Result (the driver
\* goes on to the next phase) no run() of it is still in flight.  Violated as
\* well: the last attempt can lose the race too.
C34_NoRunLeftBehind == execState = "resolved" => RunsInFlight = {}

\* C35: after stop() no new session is created and no new pipeline is
\* started, not even for the items of a batch whose handling had begun before
\* stop().  Violated: isRunning is read once, when the tick begins; the
\* callback suspended in queryDatabase, or between two items of its loop,
\* goes on to call handleNewQA after stop(), and processQA creates a session.
C35_NothingStartsAfterStop ==
  [][Stopped =>
       /\ DOMAIN sessions' = DOMAIN sessions
       /\ \A r \in DOMAIN pc : pc[r] = "idle" => pc'[r] = "idle"]_vars

\* C36: a start() that fails because subscribing throws does not leave the
\* orchestrator marked running, and whenever isRunning is true once start()
\* is over (no start() is suspended in its await) an interval of the poll
\* timer is armed.  Violated: start() sets isRunning before its try block and
\* the catch block rethrows without resetting it; every later start() returns
\* at the 'already running' test and never reaches setupPolling.
C36_RunningHasPollTimer ==
  (isRunning /\ starting = 0) => intervals # {}

\* C37: when the handling of an accepted item has ended, whatever calls of
\* the collaborators succeeded or failed, the status of the session and the
\* status of the item in the tracker agree: COMPLETED if and only if the item
\* is Done or Not Actionable, FAILED if and only if it is In Review, and the
\* item is not left In Progress.  (Stated for the runs whose session timer
\* did not fire.)  Violated: the updatePageStatus(IN_REVIEW) of handleError
\* can fail as well, and then the session is FAILED with the item left at
\* the status the tracker had, In Progress or Done.
C37_SessionAndTrackerAgree ==
  \A r \in Runs :
    (Ended(r) /\ runSession[r] # 0 /\ ~TimerEndedRun(r)) =>
      LET status == sessions[runSession[r]].status
          page   == tracker[runItem[r]]
      IN  /\ (status = COMPLETED) <=> (page \in {DONE, NOT_ACTIONABLE})
          /\ (status = FAILED) <=> (page = IN_REVIEW)
          /\ page # IN_PROGRESS

\* the agent of phase P returned a successful Step Result to run r
PhaseSucceeded(r, P) ==
  \E k \in DOMAIN agentResults[r] :
    agentCalls[r][k] = P /\ agentResults[r][k].success

\* C38: a phase carried out by an agent is listed in completedPhases of a
\* session only if that agent returned a successful Step Result; a session
\* that FAILED or timed out during phase P does not list P.  Violated:
\* processQA calls updatePhase(P) before it calls the agent of P, and
\* updatePhase appends P to completedPhases at once; nothing removes it when
\* the agent fails.
C38_ListedPhasesSucceeded ==
  \A r \in Runs :
    runSession[r] # 0 =>
      LET listed == sessions[runSession[r]].completedPhases
      IN  \A k \in DOMAIN listed :
            Includes(Phases, listed[k]) => PhaseSucceeded(r, listed[k])

\* C38: the failing case alone: the session is FAILED after its analysis
\* agent returned success = false, and ANALYSIS is listed
C38_FailedPhaseNotListed ==
  \A r \in Runs :
    (/\ runSession[r] # 0
     /\ sessions[runSession[r]].status = FAILED
     /\ Len(agentResults[r]) = 1
     /\ ~agentResults[r][1].success) =>
      ~Includes(sessions[runSession[r]].completedPhases, ANALYSIS)

\* C39: the retryCount in the metadata of the Step Result execute returns is
\* the number of run() attempts that were made minus one, on success and on
\* failure alike (every attempt starts one run(), and the attempts are the
\* calls retry made of its fn).
C39_RetryCountIsAttemptsLessOne ==
  execState = "resolved" =>
    /\ Len(results) = 1
    /\ Len(runState) = fnCalls
    /\ results[1].retryCount = fnCalls - 1

\* C39 witness: execute returned success after three attempts, with
\* retryCount 2
C39_Witness ==
  /\ execState = "resolved"
  /\ results[1].success
  /\ fnCalls = 3
  /\ results[1].retryCount = 2

\* C39 witness: execute returned a failure after a second attempt that
\* rejected with an error that is not retried, with retryCount 1
C39_WitnessFailure ==
  /\ execState = "resolved"
  /\ ~results[1].success
  /\ fnCalls = 2
  /\ ~isRetryableError(thrown[2], opts)
  /\ results[1].retryCount = 1

\* C40: getStats partitions the store: total = active + completed + failed +
\* timeout, and its active equals getActiveSessionCount() (the sessions that
\* are RUNNING or CREATED), so that the orchestrator's getStats reports
\* sessions.active equal to activeSessions.  Violated: getStats counts as
\* active the RUNNING sessions only, so a CREATED session is in total and in
\* none of the four parts, and is counted by getActiveSessionCount alone.
C40_StatsPartitionStore ==
  LET stats == getStats(Store)
  IN  /\ stats.total = stats.active + stats.completed + stats.failed + stats.timeout
      /\ stats.active = getActiveSessionCount(Store)

====
